---- MODULE Spec2Model ----
(***************************************************************************)
(* A model of the realtimeTTS-go streaming pipeline.                       *)
(*                                                                         *)
(* Three groups of state are modelled:                                     *)
(*   - StreamPlayer / AudioStream / AudioBuffer (channel-signalled player) *)
(*   - TextToAudioStream, the orchestrator that owns the player            *)
(*   - the synchronous-Play draft (AudioPlayer.PlayAudio, ESpeakEngine)    *)
(*                                                                         *)
(* Handlers that run under a mutex and do not block are one action each.   *)
(* Worker goroutines are split at their blocking points (select, channel   *)
(* receive, sleep), one action per step.                                   *)
(***************************************************************************)
EXTENDS Integers, Sequences, FiniteSets, TLC

\* ---- bounds of the model ------------------------------------------------
MaxStarts == 2
MaxChunks == 2
MaxTimings == 1
MaxPauses == 1
MaxDevFails == 1
MaxFeeds == 1
MaxEngines == 2
MaxEngineFails == 2
TextBufferCap == 1
AudioChanCap == 1
RingCap == 1
MaxUnits == 2
QueueCap == 2
MaxSyncFeeds == 1
MaxSyncPlays == 1
MaxFeeders == 2
MaxAbmChunks == 3
MaxBufClears == 2
MaxSynth == 3
MaxTime == 4000
MaxActivity == 2
MaxWaitStart == 200
MaxAbmClears == 1
AbmBufferSize == 1
OutLen == 2
DevBufferCap == 2
MaxChunkSamples == 3
MaxSamples == 5
MaxCpPauses == 2
MaxCpResumes == 2
MaxEspStops == 3
MaxEspSynths == 3

\* ---- program constants --------------------------------------------------
ChunkBytes == 8
TickMs == 100
QuietMs == 3000
SettleMs == 1000
BytesPerFrame == 2

Workers == 1..MaxStarts

VARIABLES
    \* StreamPlayer
    playbackActive, playbackPaused,
    chGen,          \* which make(chan) generation immediateStop/pauseEvent/resumeEvent hold
    stopClosed,     \* generations whose immediateStop has been closed
    pbw,            \* playbackWorker goroutines, one per successful Start
    stats,          \* PlaybackStats
    \* AudioStream
    stream,         \* isOpen / isActive / isClosed / lastError
    ring,           \* AudioStream.audioBuffer, drained by audioCallback
    \* AudioBuffer
    ttsAudioChan, timings, totalSamples,
    \* TextToAudioStream
    isPlaying, isPaused,
    ctxDone,        \* tts.ctx has been cancelled
    textBuffer, currentEngine,
    nEngines,       \* len(tts.engines), fixed at construction
    pw,             \* playWorker goroutines, one per successful Play
    \* observation
    cb,             \* how often the counted callbacks were invoked since the last Play
    lastCb,         \* the callbacks invoked by the step just taken
    stopped,        \* Stop has acted on the session and Play has not been called since
    ret,            \* the last Start / Stop / Play call and what it returned
    env,            \* how many calls / inputs the environment has used up
    \* the synchronous-Play draft: TextToAudioStream, ESpeakEngine, AudioPlayer
    syncTextBuffer, syncIsPlaying,
    syncCtxDone,    \* the ctx passed to Play has been cancelled
    syncStopClosed, \* TextToAudioStream.stopChan has been closed
    syn,            \* the processTextSynthesis goroutine
    sim,            \* the simulateSynthesis goroutines, one per synthesized sentence
    engineStopped,  \* BaseEngine.stopChan has been closed
    AudioQueue,     \* BaseEngine.AudioQueue
    player,         \* the AudioPlayer and the goroutine inside PlayAudio
    device,         \* the chunks written to the oto player, in order
    senv,           \* how many calls the environment of the draft has used up
    \* AudioBufferManager
    abm,            \* audioBuffer / totalSamples / isClosed / bytesProcessed / chunksProcessed
    abmTtsChan,     \* AudioBufferManager.ttsAudioChan
    abmProc,        \* the processTTSAudio goroutine
    abmAdd,         \* a goroutine calling AddToBuffer
    abmGet,         \* a goroutine calling GetFromBuffer
    abmBytes,       \* bytes handed in, taken out, discarded by ClearBuffer, dropped
    abmRet,         \* the last AddToBuffer / GetFromBuffer call and what it returned
    \* goroutines calling Feed, directly or through FeedAsync
    feeders,        \* each caller's position in Feed, its text and what Feed returned
    mu,             \* tts.mu: 0 when unlocked, else the caller of Feed holding it
    \* Close
    closer,         \* the goroutine calling Close: its position in Close
    closed,         \* Close has closed the engines and the three channels
    \* WaitForPlaybackComplete
    now,            \* the clock, in milliseconds
    lastActivity,   \* stats.LastActivityTime: the instant of the last update
    wait,           \* the goroutine in WaitForPlaybackComplete and its local variables
    \* Mute / Unmute
    muted,          \* AudioStream.config.Muted
    \* engines.BaseEngine
    be,             \* status / isProcessing / lastError / stopChan closed / stats
    beWorker,       \* each synthesisWorker goroutine: its position and who called Synthesize
    beOrch,         \* synthesizeSentence: calling Synthesize or ranging over a job's channel
    beRet,          \* the last Initialize / Synthesize / Close call and what it returned
    \* pkg AudioBuffer called directly
    buf,            \* the ClearBuffer calls made and what the last call returned
    \* AudioStream.selectBestSampleRate
    sr,             \* the last call: the device's default rate, the desired rate, the result
    \* AudioStream.audioBuffer with sample contents
    devBuffer,      \* as.audioBuffer: the []float32 blocks queued for the device
    devOut,         \* the out buffer as the last audioCallback left it
    devCopied,      \* the samples of accepted blocks copied to out so far, in order
    devAccepted,    \* the number of samples WriteAudioData has accepted
    devRet,         \* what the last WriteAudioData returned
    \* StreamPlayer of streamPlayer.go (Pause and Resume close their channels)
    cp,             \* playbackActive / playbackPaused / pauseEvent closed / resumeEvent closed
    cpw,            \* the playbackWorker's position
    cpRet,          \* the last Start / Pause / Resume call and what it returned
    \* BaseEngine of part_003 with ESpeakEngine.Synthesize
    esp,            \* status / stopChan closed / the Stop and Synthesize calls made
    espSyn,         \* the goroutine in ESpeakEngine.Synthesize: its position
    espRet          \* the last Stop / Synthesize call and what it returned

playerVars == <<playbackActive, playbackPaused, chGen, stopClosed, pbw, stats,
                stream, ring, ttsAudioChan, timings, totalSamples>>
ttsVars == <<isPlaying, isPaused, ctxDone, textBuffer, currentEngine, nEngines, pw>>
obsVars == <<cb, lastCb, stopped>>
syncVars == <<syncTextBuffer, syncIsPlaying, syncCtxDone, syncStopClosed, syn, sim,
              engineStopped, AudioQueue, player, device, senv>>
abmVars == <<abm, abmTtsChan, abmProc, abmAdd, abmGet, abmBytes, abmRet>>
feedVars == <<feeders, mu>>
closeVars == <<closer, closed>>
waitVars == <<now, lastActivity, wait>>
muteVars == <<muted>>
beVars == <<be, beWorker, beOrch, beRet>>
bufVars == <<buf>>
rateVars == <<sr>>
ringVars == <<devBuffer, devOut, devCopied, devAccepted, devRet>>
cpVars == <<cp, cpw, cpRet>>
espVars == <<esp, espSyn, espRet>>
draftVars == <<syncVars, abmVars, feedVars, closeVars, waitVars, muteVars, beVars, bufVars, rateVars, ringVars, cpVars, espVars>>
asyncVars == <<playerVars, ttsVars, obsVars, ret, env>>
vars == <<asyncVars, syncVars, abmVars, feedVars, closeVars, waitVars, muteVars, beVars, bufVars, rateVars, ringVars, cpVars, espVars>>

CallbackNames == {"OnPlaybackStart", "OnPlaybackStop", "OnPlaybackPause",
                  "OnPlaybackResume", "OnAudioChunk", "OnWord",
                  "OnTextStreamStart", "OnTextStreamStop", "OnEngineSynthesisStart",
                  "OnEngineSwitch", "OnEngineError", "OnCharacter",
                  "OnSentenceSynthesized", "OnError"}

\* The callbacks whose invocations are counted.
CountedCallbacks == {"OnPlaybackStop", "OnTextStreamStop"}

\* The callbacks in S are invoked (each once) in this step.
Emit(S) ==
    /\ cb' = [n \in CountedCallbacks |-> cb[n] + (IF n \in S THEN 1 ELSE 0)]
    /\ lastCb' = S

NoWorker == [pc |-> "none", gen |-> 0, chunk |-> 0]

\* ---- AudioStream -----------------------------------------------------------

\* OpenStream: the stream after the call and the error it returns.
OpenStream(s, ok) ==
    IF s.isOpen THEN [s |-> s, err |-> "ErrStreamAlreadyOpen"]
    ELSE IF ~ok THEN [s |-> [s EXCEPT !.lastError = TRUE], err |-> "OpenFailed"]
    ELSE [s |-> [s EXCEPT !.isOpen = TRUE], err |-> "nil"]

StartStream(s, ok) ==
    IF ~s.isOpen THEN [s |-> s, err |-> "ErrStreamNotOpen"]
    ELSE IF s.isActive THEN [s |-> s, err |-> "ErrStreamAlreadyActive"]
    ELSE IF ~ok THEN [s |-> [s EXCEPT !.lastError = TRUE], err |-> "StartFailed"]
    ELSE [s |-> [s EXCEPT !.isActive = TRUE], err |-> "nil"]

StopStream(s, ok) ==
    IF ~s.isActive THEN [s |-> s, err |-> "ErrStreamNotActive"]
    ELSE IF ~ok THEN [s |-> [s EXCEPT !.lastError = TRUE], err |-> "StopFailed"]
    ELSE [s |-> [s EXCEPT !.isActive = FALSE], err |-> "nil"]

CloseStream(s, ok) ==
    IF s.isClosed THEN [s |-> s, err |-> "nil"]
    ELSE LET t == [isOpen |-> FALSE, isActive |-> FALSE, isClosed |-> TRUE,
                   lastError |-> (s.lastError \/ ~ok)]
         IN [s |-> t, err |-> IF t.lastError THEN "CloseFailed" ELSE "nil"]

IsStreamActive == stream.isActive /\ stream.isOpen /\ ~stream.isClosed

\* ---- StreamPlayer handlers -------------------------------------------------

\* Start: what it returns for the given device outcomes.
PlayerStartResult(openOK, startOK) ==
    IF playbackActive THEN [s |-> stream, err |-> "ErrPlayerAlreadyPlaying"]
    ELSE LET o == OpenStream(stream, openOK) IN
         IF o.err # "nil" THEN o
         ELSE StartStream(o.s, startOK)

PlayerStartBody(openOK, startOK) ==
    LET r == PlayerStartResult(openOK, startOK) IN
    /\ stream' = r.s
    /\ IF r.err = "nil"
       THEN /\ playbackActive' = TRUE
            /\ playbackPaused' = FALSE
            /\ chGen' = chGen + 1
            /\ pbw' = [pbw EXCEPT ![chGen + 1] =
                          [pc |-> "select", gen |-> chGen + 1, chunk |-> 0]]
       ELSE UNCHANGED <<playbackActive, playbackPaused, chGen, pbw>>
    /\ UNCHANGED <<stopClosed, stats, ring, ttsAudioChan, timings, totalSamples>>

\* Stop: the stream after the call, the error, and whether ClearBuffer ran.
PlayerStopResult(stopOK, closeOK) ==
    IF ~playbackActive THEN [s |-> stream, err |-> "ErrPlayerNotPlaying"]
    ELSE LET st == StopStream(stream, stopOK) IN
         IF st.err # "nil" THEN st
         ELSE CloseStream(st.s, closeOK)

\* Stop's effect on every player variable but pbw.
PlayerStopEffect(stopOK, closeOK) ==
    LET r == PlayerStopResult(stopOK, closeOK) IN
    /\ stream' = r.s
    /\ IF playbackActive
       THEN /\ stopClosed' = stopClosed \cup {chGen}
            /\ playbackActive' = FALSE
            /\ playbackPaused' = FALSE
       ELSE UNCHANGED <<stopClosed, playbackActive, playbackPaused>>
    /\ IF r.err = "nil"
       THEN timings' = <<>> /\ totalSamples' = 0
       ELSE UNCHANGED <<timings, totalSamples>>
    /\ UNCHANGED <<chGen, stats, ring, ttsAudioChan>>

PlayerStopCb(stopOK, closeOK) ==
    IF PlayerStopResult(stopOK, closeOK).err = "nil" THEN {"OnPlaybackStop"} ELSE {}

PlayerStartCb(openOK, startOK) ==
    IF PlayerStartResult(openOK, startOK).err = "nil" THEN {"OnPlaybackStart"} ELSE {}

\* A worker blocked in the outer select on the channel Pause sends to.
AtSelect(w) == pbw[w].pc = "select" /\ pbw[w].gen = chGen
\* A worker blocked in the inner select on the channel Resume sends to.
AtParked(w) == pbw[w].pc = "parked" /\ pbw[w].gen = chGen

\* The non-blocking send of Pause: it is taken when a receiver is waiting on
\* the unbuffered pauseEvent, and dropped otherwise.
PauseSignal ==
    IF \E w \in Workers : AtSelect(w)
    THEN \E w \in Workers : AtSelect(w) /\ pbw' = [pbw EXCEPT ![w].pc = "pauseRecv"]
    ELSE pbw' = pbw

PlayerPauseErr ==
    IF ~playbackActive THEN "ErrPlayerNotPlaying"
    ELSE IF playbackPaused THEN "ErrPlayerPaused"
    ELSE "nil"

PlayerPauseCb == IF PlayerPauseErr = "nil" THEN {"OnPlaybackPause"} ELSE {}

PlayerPauseBody ==
    /\ IF PlayerPauseErr = "nil"
       THEN playbackPaused' = TRUE /\ PauseSignal
       ELSE UNCHANGED <<playbackPaused, pbw>>
    /\ UNCHANGED <<playbackActive, chGen, stopClosed, stats, stream, ring,
                   ttsAudioChan, timings, totalSamples>>

\* The non-blocking send of Resume; the woken worker continues the loop and
\* blocks in the outer select again.
ResumeSignal ==
    IF \E w \in Workers : AtParked(w)
    THEN \E w \in Workers :
            AtParked(w) /\ pbw' = [pbw EXCEPT ![w].pc = "select", ![w].gen = chGen]
    ELSE pbw' = pbw

PlayerResumeErr == IF ~playbackActive THEN "ErrPlayerNotPlaying" ELSE "nil"

\* TRUE when Resume goes past its early returns and fires onPlaybackResume.
PlayerResumeActs == playbackActive /\ playbackPaused

PlayerResumeCb == IF PlayerResumeActs THEN {"OnPlaybackResume"} ELSE {}

PlayerResumeBody ==
    /\ IF PlayerResumeActs
       THEN playbackPaused' = FALSE /\ ResumeSignal
       ELSE UNCHANGED <<playbackPaused, pbw>>
    /\ UNCHANGED <<playbackActive, chGen, stopClosed, stats, stream, ring,
                   ttsAudioChan, timings, totalSamples>>

\* ---- StreamPlayer called directly -----------------------------------------

Spend(what) == env' = [env EXCEPT ![what] = @ + 1]
\* What a device call may answer: it may fail while the failure budget lasts.
DevInputs == IF env.devFails < MaxDevFails THEN BOOLEAN ELSE {TRUE}
\* Two device calls of one handler: at most one of them fails.
DevPairs == {p \in DevInputs \X DevInputs : p[1] \/ p[2]}
Failed(p) == IF p[1] /\ p[2] THEN 0 ELSE 1

PlayerStart ==
    /\ chGen < MaxStarts
    /\ \E p \in DevPairs :
        /\ PlayerStartBody(p[1], p[2])
        /\ Emit(PlayerStartCb(p[1], p[2]))
        /\ ret' = [op |-> "PlayerStart", err |-> PlayerStartResult(p[1], p[2]).err]
        /\ env' = [env EXCEPT !.devFails = @ + Failed(p)]
    /\ UNCHANGED <<ttsVars, stopped>>
    /\ UNCHANGED draftVars

PlayerStop ==
    /\ \E p \in DevPairs :
        /\ PlayerStopEffect(p[1], p[2])
        /\ pbw' = pbw
        /\ Emit(PlayerStopCb(p[1], p[2]))
        /\ ret' = [op |-> "PlayerStop", err |-> PlayerStopResult(p[1], p[2]).err]
        /\ env' = [env EXCEPT !.devFails = @ + Failed(p)]
    /\ UNCHANGED <<ttsVars, stopped>>
    /\ UNCHANGED draftVars

PlayerPause ==
    /\ env.pauses < MaxPauses
    /\ PlayerPauseBody
    /\ Emit(PlayerPauseCb)
    /\ ret' = ret
    /\ Spend("pauses")
    /\ UNCHANGED <<ttsVars, stopped>>
    /\ UNCHANGED draftVars

PlayerResume ==
    /\ PlayerResumeBody
    /\ Emit(PlayerResumeCb)
    /\ ret' = ret
    /\ UNCHANGED <<ttsVars, stopped, env>>
    /\ UNCHANGED draftVars

\* StreamPlayer.Mute / Unmute: AudioStream.SetMuted(m)
SetMuted(m) ==
    /\ muted # m
    /\ muted' = m
    /\ UNCHANGED <<asyncVars, syncVars, abmVars, feedVars, closeVars, waitVars, beVars, bufVars, rateVars, ringVars, cpVars, espVars>>

PlayerMute == SetMuted(TRUE)
PlayerUnmute == SetMuted(FALSE)

\* ---- playbackWorker ---------------------------------------------------------

SetPc(w, p) == pbw' = [pbw EXCEPT ![w].pc = p]
\* Going round the loop: the worker reads the channel fields and blocks in select.
ToSelect(w) == pbw' = [pbw EXCEPT ![w].pc = "select", ![w].gen = chGen, ![w].chunk = 0]

\* What a worker step that only moves the worker leaves alone.
WorkerFrame ==
    /\ Emit({})
    /\ UNCHANGED <<playbackActive, playbackPaused, chGen, stopClosed, stats, stream,
                   ring, ttsAudioChan, timings, totalSamples, ttsVars, stopped, ret, env>>

\* case <-sp.immediateStop (outer select)
WorkerStopSignal(w) ==
    /\ pbw[w].pc = "select"
    /\ pbw[w].gen \in stopClosed
    /\ SetPc(w, "done")
    /\ WorkerFrame
    /\ UNCHANGED draftVars

\* after case <-sp.pauseEvent: enter the inner select
WorkerPark(w) ==
    /\ pbw[w].pc = "pauseRecv"
    /\ pbw' = [pbw EXCEPT ![w].pc = "parked", ![w].gen = chGen]
    /\ WorkerFrame
    /\ UNCHANGED draftVars

\* case <-sp.immediateStop (inner select)
WorkerParkedStop(w) ==
    /\ pbw[w].pc = "parked"
    /\ pbw[w].gen \in stopClosed
    /\ SetPc(w, "done")
    /\ WorkerFrame
    /\ UNCHANGED draftVars

\* case <-ticker.C: call processAudioChunk
WorkerTick(w) ==
    /\ pbw[w].pc = "select"
    /\ SetPc(w, "get")
    /\ WorkerFrame
    /\ UNCHANGED draftVars

\* AudioBuffer.GetFromBuffer: a chunk is there
WorkerGetChunk(w) ==
    /\ pbw[w].pc = "get"
    /\ ttsAudioChan # <<>>
    /\ pbw' = [pbw EXCEPT ![w].pc = "write", ![w].chunk = Head(ttsAudioChan)]
    /\ ttsAudioChan' = Tail(ttsAudioChan)
    /\ totalSamples' = totalSamples + (ChunkBytes \div BytesPerFrame)
    /\ UNCHANGED <<playbackActive, playbackPaused, chGen, stopClosed, stats, stream,
                   ring, timings, ttsVars, stopped, ret, env>>
    /\ Emit({})
    /\ UNCHANGED draftVars

\* AudioBuffer.GetFromBuffer: 200 ms pass with nothing in the channel
WorkerGetTimeout(w) ==
    /\ pbw[w].pc = "get"
    /\ ttsAudioChan = <<>>
    /\ ToSelect(w)
    /\ WorkerFrame
    /\ UNCHANGED draftVars

\* AudioStream.WriteAudioData: "nil", or the error it returns
WriteAudioData ==
    IF ~stream.isActive \/ ~stream.isOpen \/ stream.isClosed THEN "ErrStreamNotActive"
    ELSE IF Len(ring) < RingCap THEN "nil"
    ELSE "ErrBufferFull"

WorkerWrite(w) ==
    /\ pbw[w].pc = "write"
    /\ IF WriteAudioData = "nil"
       THEN /\ ring' = Append(ring, pbw[w].chunk)
            /\ SetPc(w, "stats")
       ELSE /\ ring' = ring
            /\ SetPc(w, "stopself")
    /\ UNCHANGED <<playbackActive, playbackPaused, chGen, stopClosed, stats, stream,
                   ttsAudioChan, timings, totalSamples, ttsVars, stopped, ret, env>>
    /\ Emit({})
    /\ UNCHANGED draftVars

\* processAudioChunk after the write: stats, then onAudioChunk
WorkerStats(w) ==
    /\ pbw[w].pc = "stats"
    /\ stats' = [stats EXCEPT !.BytesPlayed = @ + ChunkBytes, !.ChunksPlayed = @ + 1]
    /\ Emit({"OnAudioChunk"})
    /\ SetPc(w, "timing")
    /\ UNCHANGED <<playbackActive, playbackPaused, chGen, stopClosed, stream,
                   ring, ttsAudioChan, timings, totalSamples, ttsVars, stopped, ret, env>>
    /\ UNCHANGED draftVars

\* processTimingInfo
WorkerTiming(w) ==
    /\ pbw[w].pc = "timing"
    /\ IF timings # <<>>
       THEN /\ timings' = Tail(timings)
            /\ stats' = [stats EXCEPT !.WordsPlayed = @ + 1]
            /\ Emit({"OnWord"})
       ELSE UNCHANGED <<timings, stats>> /\ Emit({})
    /\ ToSelect(w)
    /\ UNCHANGED <<playbackActive, playbackPaused, chGen, stopClosed, stream,
                   ring, ttsAudioChan, totalSamples, ttsVars, stopped, ret, env>>
    /\ UNCHANGED draftVars

\* a non-timeout error: the worker calls sp.Stop() and returns
WorkerStopSelf(w) ==
    /\ pbw[w].pc = "stopself"
    /\ \E p \in DevPairs :
        /\ PlayerStopEffect(p[1], p[2])
        /\ Emit(PlayerStopCb(p[1], p[2]))
        /\ env' = [env EXCEPT !.devFails = @ + Failed(p)]
    /\ SetPc(w, "done")
    /\ UNCHANGED <<ttsVars, stopped, ret>>
    /\ UNCHANGED draftVars

PlaybackWorkerStep ==
    \E w \in Workers :
        \/ WorkerStopSignal(w) \/ WorkerPark(w) \/ WorkerParkedStop(w)
        \/ WorkerTick(w) \/ WorkerGetChunk(w) \/ WorkerGetTimeout(w)
        \/ WorkerWrite(w) \/ WorkerStats(w) \/ WorkerTiming(w) \/ WorkerStopSelf(w)

\* ---- the device and the producers ------------------------------------------

\* audioCallback: PortAudio takes one block out of the ring
AudioCallback ==
    /\ stream.isActive
    /\ ring # <<>>
    /\ ring' = Tail(ring)
    /\ UNCHANGED <<playbackActive, playbackPaused, chGen, stopClosed, pbw, stats,
                   stream, ttsAudioChan, timings, totalSamples, ttsVars, stopped, ret, env>>
    /\ Emit({})
    /\ UNCHANGED draftVars

\* a producer sends one chunk to ttsAudioChan (blocks while the channel is full)
ProduceChunk ==
    /\ env.chunks < MaxChunks
    /\ Len(ttsAudioChan) < AudioChanCap
    /\ ttsAudioChan' = Append(ttsAudioChan, env.chunks + 1)
    /\ Spend("chunks")
    /\ UNCHANGED <<playbackActive, playbackPaused, chGen, stopClosed, pbw, stats,
                   stream, ring, timings, totalSamples, ttsVars, stopped, ret>>
    /\ Emit({})
    /\ UNCHANGED draftVars

\* AudioBuffer.AddTimingInfo
AddTimingInfo ==
    /\ env.timings < MaxTimings
    /\ Len(timings) < AudioChanCap
    /\ timings' = Append(timings, env.timings + 1)
    /\ Spend("timings")
    /\ UNCHANGED <<playbackActive, playbackPaused, chGen, stopClosed, pbw, stats,
                   stream, ring, ttsAudioChan, totalSamples, ttsVars, stopped, ret>>
    /\ Emit({})
    /\ UNCHANGED draftVars

\* ---- TextProcessor ----------------------------------------------------------

\* A string is a sequence of one-character strings.
RECURSIVE SplitAcc(_, _, _, _)
SplitAcc(s, d, cur, out) ==
    IF s = <<>> THEN Append(out, cur)
    ELSE IF Head(s) = d THEN SplitAcc(Tail(s), d, <<>>, Append(out, cur))
    ELSE SplitAcc(Tail(s), d, Append(cur, Head(s)), out)

\* strings.Split(s, d) for a one-character separator
Split(s, d) == SplitAcc(s, d, <<>>, <<>>)

\* unicode.IsSpace, for the characters the model's texts use
IsSpace(c) == c \in {" ", "\n", "\t"}

RECURSIVE TrimLeft(_)
TrimLeft(s) == IF s # <<>> /\ IsSpace(Head(s)) THEN TrimLeft(Tail(s)) ELSE s

RECURSIVE TrimRight(_)
TrimRight(s) ==
    IF s # <<>> /\ IsSpace(s[Len(s)]) THEN TrimRight(SubSeq(s, 1, Len(s) - 1)) ELSE s

\* strings.TrimSpace
TrimSpace(s) == TrimRight(TrimLeft(s))

\* TextProcessor.splitIntoSentences
splitIntoSentences(text) ==
    LET parts == Split(text, ".")
        trimmed == [k \in 1..Len(parts) |-> TrimSpace(parts[k])]
    IN SelectSeq(trimmed, LAMBDA x : x # <<>>)

\* ---- TextToAudioStream handlers ------------------------------------------------

\* The texts the environment feeds: "" and " a. ".
Texts == {<<>>, <<" ", "a", ".", " ">>}

PlayWorkers == 1..MaxStarts
NoPlayWorker == [pc |-> "none", sents |-> <<>>, och |-> <<>>, eng |-> "none", chunk |-> 0,
                 tries |-> 0]
Running(i) == pw[i].pc \notin {"none", "done"}

PlayerFrame == UNCHANGED playerVars

Feed ==
    /\ env.feeds < MaxFeeds
    /\ mu = 0
    /\ \E text \in Texts :
        /\ IF isPlaying
           THEN textBuffer' = textBuffer
           ELSE IF Len(textBuffer) < TextBufferCap
           THEN textBuffer' = Append(textBuffer, text)
           ELSE textBuffer' = textBuffer
    /\ Spend("feeds")
    /\ PlayerFrame
    /\ UNCHANGED <<isPlaying, isPaused, ctxDone, currentEngine, nEngines, pw, stopped, ret>>
    /\ Emit({})
    /\ UNCHANGED draftVars

Play ==
    /\ env.plays < MaxStarts
    /\ IF isPlaying
       THEN /\ ret' = [op |-> "Play", err |-> "playing"]
            /\ UNCHANGED <<isPlaying, isPaused, pw, stopped, env>>
            /\ Emit({})
       ELSE /\ isPlaying' = TRUE
            /\ isPaused' = FALSE
            /\ pw' = [pw EXCEPT ![env.plays + 1].pc = "start"]
            /\ Spend("plays")
            /\ cb' = [n \in CountedCallbacks |-> 0]
            /\ stopped' = FALSE
            /\ lastCb' = {}
            /\ ret' = [op |-> "Play", err |-> "nil"]
    /\ PlayerFrame
    /\ UNCHANGED <<ctxDone, textBuffer, currentEngine, nEngines>>
    /\ UNCHANGED draftVars

Stop ==
    /\ IF ~isPlaying
       THEN /\ ret' = [op |-> "Stop", err |-> "nil"]
            /\ UNCHANGED <<playerVars, isPlaying, isPaused, ctxDone, stopped, env>>
            /\ Emit({})
       ELSE \E p \in DevPairs :
            /\ isPlaying' = FALSE
            /\ isPaused' = FALSE
            /\ ctxDone' = TRUE
            /\ PlayerStopEffect(p[1], p[2])
            /\ pbw' = pbw
            /\ Emit(PlayerStopCb(p[1], p[2]))
            /\ stopped' = TRUE
            /\ ret' = [op |-> "Stop", err |-> PlayerStopResult(p[1], p[2]).err]
            /\ env' = [env EXCEPT !.devFails = @ + Failed(p)]
    /\ UNCHANGED <<textBuffer, currentEngine, nEngines, pw>>
    /\ UNCHANGED draftVars

PauseErr ==
    IF ~isPlaying THEN "notPlaying" ELSE IF isPaused THEN "alreadyPaused" ELSE PlayerPauseErr

Pause ==
    /\ env.pauses < MaxPauses
    /\ IF isPlaying /\ ~isPaused
       THEN isPaused' = TRUE /\ PlayerPauseBody /\ Emit(PlayerPauseCb)
       ELSE UNCHANGED <<playerVars, isPaused>> /\ Emit({})
    /\ ret' = ret
    /\ Spend("pauses")
    /\ UNCHANGED <<isPlaying, ctxDone, textBuffer, currentEngine, nEngines, pw, stopped>>
    /\ UNCHANGED draftVars

ResumeErr ==
    IF ~isPlaying THEN "notPlaying" ELSE IF ~isPaused THEN "notPaused" ELSE PlayerResumeErr

Resume ==
    /\ IF isPlaying /\ isPaused
       THEN isPaused' = FALSE /\ PlayerResumeBody /\ Emit(PlayerResumeCb)
       ELSE UNCHANGED <<playerVars, isPaused>> /\ Emit({})
    /\ ret' = ret
    /\ UNCHANGED <<isPlaying, ctxDone, textBuffer, currentEngine, nEngines, pw, stopped, env>>
    /\ UNCHANGED draftVars

\* ---- playWorker ----------------------------------------------------------------

\* return from playWorker: the deferred function resets isPlaying under tts.mu
Exit(i) ==
    /\ mu = 0
    /\ pw' = [pw EXCEPT ![i] = [NoPlayWorker EXCEPT !.pc = "done", !.eng = pw[i].eng,
                                                    !.och = pw[i].och]]
    /\ isPlaying' = FALSE

\* tts.player.Start()
PlayWorkerStart(i) ==
    /\ pw[i].pc = "start"
    /\ \E p \in DevPairs :
        /\ PlayerStartBody(p[1], p[2])
        /\ env' = [env EXCEPT !.devFails = @ + Failed(p)]
        /\ IF PlayerStartResult(p[1], p[2]).err = "nil"
           THEN /\ Emit({"OnPlaybackStart"})
                /\ pw' = [pw EXCEPT ![i].pc = "loop"]
                /\ isPlaying' = isPlaying
           ELSE /\ Emit({"OnError"})
                /\ Exit(i)
    /\ UNCHANGED <<isPaused, ctxDone, textBuffer, currentEngine, nEngines, stopped, ret>>
    /\ UNCHANGED draftVars

\* case text := <-tts.textBuffer, and processText up to the first sentence
PlayWorkerTakeText(i) ==
    /\ pw[i].pc = "loop"
    /\ textBuffer # <<>>
    /\ textBuffer' = Tail(textBuffer)
    /\ LET ss == splitIntoSentences(Head(textBuffer)) IN
       IF ss = <<>>
       THEN /\ Emit({"OnTextStreamStart", "OnTextStreamStop"})
            /\ pw' = pw
       ELSE /\ Emit({"OnTextStreamStart"})
            /\ pw' = [pw EXCEPT ![i].pc = "synth", ![i].sents = ss]
    /\ PlayerFrame
    /\ UNCHANGED <<isPlaying, isPaused, ctxDone, currentEngine, nEngines, stopped, ret, env>>
    /\ UNCHANGED draftVars

\* case <-tts.ctx.Done()
PlayWorkerCtxDone(i) ==
    /\ pw[i].pc = "loop"
    /\ ctxDone
    /\ Exit(i)
    /\ PlayerFrame
    /\ UNCHANGED <<isPaused, ctxDone, textBuffer, currentEngine, nEngines, stopped, ret, env>>
    /\ Emit({})
    /\ UNCHANGED draftVars

EngInputs == IF env.engFails < MaxEngineFails THEN BOOLEAN ELSE {TRUE}

\* switchToNextEngine without the modulo
switchToNextEngineNoWrap(cur, n) == IF n <= 1 THEN cur ELSE cur + 1

\* TextToAudioStream.switchToNextEngine: the next index, or the same when it cannot switch
switchToNextEngine(cur, n) == IF n <= 1 THEN cur ELSE (cur + 1) % n

\* synthesizeSentence up to the call of engine.Synthesize, and what follows an error
PlayWorkerSynthesize(i) ==
    /\ pw[i].pc = "synth"
    /\ \E ok \in EngInputs :
        IF ok
        THEN /\ Emit({"OnEngineSynthesisStart"})
             /\ pw' = [pw EXCEPT ![i].pc = "forward", ![i].eng = "run", ![i].och = <<>>,
                                 ![i].tries = 0]
             /\ UNCHANGED <<isPlaying, currentEngine, env>>
        ELSE /\ Spend("engFails")
             /\ mu = 0
             /\ currentEngine' = switchToNextEngine(currentEngine, nEngines)
             /\ IF nEngines > 1
                THEN /\ Emit({"OnEngineSynthesisStart", "OnEngineSwitch"})
                     /\ pw' = [pw EXCEPT ![i].tries = @ + 1]
                     /\ isPlaying' = isPlaying
                ELSE /\ Emit({"OnEngineSynthesisStart", "OnError"})
                     /\ Exit(i)
    /\ PlayerFrame
    /\ UNCHANGED <<isPaused, ctxDone, textBuffer, nEngines, stopped, ret>>
    /\ UNCHANGED draftVars

\* MockEngine.Synthesize's goroutine: send the chunk or see ctx.Done, then close
EngineRun(i) ==
    /\ pw[i].eng = "run"
    /\ \/ /\ pw' = [pw EXCEPT ![i].eng = "closed", ![i].och = Append(@, env.chunks + 1)]
          /\ Spend("chunks")
       \/ /\ ctxDone
          /\ pw' = [pw EXCEPT ![i].eng = "closed"]
          /\ env' = env
    /\ PlayerFrame
    /\ UNCHANGED <<isPlaying, isPaused, ctxDone, textBuffer, currentEngine, nEngines,
                   stopped, ret>>
    /\ Emit({})
    /\ UNCHANGED draftVars

\* for audioData := range audioChunks: a chunk arrives
PlayWorkerRecv(i) ==
    /\ pw[i].pc = "forward"
    /\ pw[i].och # <<>>
    /\ pw' = [pw EXCEPT ![i].pc = "send", ![i].chunk = Head(pw[i].och), ![i].och = Tail(@)]
    /\ PlayerFrame
    /\ UNCHANGED <<isPlaying, isPaused, ctxDone, textBuffer, currentEngine, nEngines,
                   stopped, ret, env>>
    /\ Emit({})
    /\ UNCHANGED draftVars

\* the range ends (channel closed and drained): OnSentenceSynthesized, next sentence
PlayWorkerRangeEnd(i) ==
    /\ pw[i].pc = "forward"
    /\ pw[i].och = <<>>
    /\ pw[i].eng = "closed"
    /\ IF Len(pw[i].sents) > 1
       THEN /\ Emit({"OnSentenceSynthesized"})
            /\ pw' = [pw EXCEPT ![i].pc = "synth", ![i].sents = Tail(@), ![i].eng = "none"]
       ELSE /\ Emit({"OnSentenceSynthesized", "OnTextStreamStop"})
            /\ pw' = [pw EXCEPT ![i].pc = "loop", ![i].sents = <<>>, ![i].eng = "none"]
    /\ PlayerFrame
    /\ UNCHANGED <<isPlaying, isPaused, ctxDone, textBuffer, currentEngine, nEngines,
                   stopped, ret, env>>
    /\ UNCHANGED draftVars

\* case tts.ttsAudioChan <- [][]byte{audioData}
PlayWorkerSend(i) ==
    /\ pw[i].pc = "send"
    /\ Len(ttsAudioChan) < AudioChanCap
    /\ ttsAudioChan' = Append(ttsAudioChan, pw[i].chunk)
    /\ pw' = [pw EXCEPT ![i].pc = "forward", ![i].chunk = 0]
    /\ UNCHANGED <<playbackActive, playbackPaused, chGen, stopClosed, pbw, stats,
                   stream, ring, timings, totalSamples>>
    /\ UNCHANGED <<isPlaying, isPaused, ctxDone, textBuffer, currentEngine, nEngines,
                   stopped, ret, env>>
    /\ Emit({})
    /\ UNCHANGED draftVars

\* case <-tts.ctx.Done(): return tts.ctx.Err(), which ends the playWorker
PlayWorkerSendCancelled(i) ==
    /\ pw[i].pc = "send"
    /\ ctxDone
    /\ Emit({"OnError"})
    /\ Exit(i)
    /\ PlayerFrame
    /\ UNCHANGED <<isPaused, ctxDone, textBuffer, currentEngine, nEngines, stopped, ret, env>>
    /\ UNCHANGED draftVars

PlayWorkerStep ==
    \E i \in PlayWorkers :
        \/ PlayWorkerStart(i) \/ PlayWorkerTakeText(i) \/ PlayWorkerCtxDone(i)
        \/ PlayWorkerSynthesize(i) \/ PlayWorkerRecv(i) \/ PlayWorkerRangeEnd(i)
        \/ PlayWorkerSend(i) \/ PlayWorkerSendCancelled(i)

EngineStep == \E i \in PlayWorkers : EngineRun(i)

\* ---- concurrent callers of Feed ----------------------------------------------

Feeders == 1..MaxFeeders
NoFeeder == [pc |-> "idle", text |-> <<>>, err |-> "none"]

FeedFrame ==
    /\ PlayerFrame
    /\ UNCHANGED <<isPlaying, isPaused, ctxDone, currentEngine, nEngines, pw, stopped,
                   ret, env>>
    /\ UNCHANGED <<syncVars, abmVars, closeVars, waitVars, muteVars, beVars, bufVars, rateVars, ringVars, cpVars, espVars>>

\* Feed entered without waiting for tts.mu
FeedLockUnguarded(f) ==
    /\ feeders[f].pc = "idle"
    /\ mu' = f
    /\ \E text \in Texts : feeders' = [feeders EXCEPT ![f].pc = "check", ![f].text = text]
    /\ textBuffer' = textBuffer
    /\ Emit({})
    /\ FeedFrame

\* Feed(text) is called, or FeedAsync's goroutine calls it: tts.mu.Lock()
FeedLock(f) ==
    /\ feeders[f].pc = "idle"
    /\ mu = 0
    /\ mu' = f
    /\ \E text \in Texts : feeders' = [feeders EXCEPT ![f].pc = "check", ![f].text = text]
    /\ textBuffer' = textBuffer
    /\ Emit({})
    /\ FeedFrame

\* if tts.isPlaying { return error }, the deferred Unlock included
FeedCheck(f) ==
    /\ feeders[f].pc = "check"
    /\ IF isPlaying
       THEN /\ feeders' = [feeders EXCEPT ![f].pc = "done", ![f].err = "playing"]
            /\ mu' = 0
       ELSE /\ feeders' = [feeders EXCEPT ![f].pc = "send"]
            /\ mu' = mu
    /\ textBuffer' = textBuffer
    /\ Emit({})
    /\ FeedFrame

\* select { case tts.textBuffer <- text: return nil; default: return error }
FeedSend(f) ==
    /\ feeders[f].pc = "send"
    /\ IF Len(textBuffer) < TextBufferCap
       THEN /\ textBuffer' = Append(textBuffer, feeders[f].text)
            /\ feeders' = [feeders EXCEPT ![f].pc = "done", ![f].err = "nil"]
       ELSE /\ textBuffer' = textBuffer
            /\ feeders' = [feeders EXCEPT ![f].pc = "done", ![f].err = "full"]
    /\ mu' = 0
    /\ Emit({})
    /\ FeedFrame

FeederStep == \E f \in Feeders : FeedLock(f) \/ FeedCheck(f) \/ FeedSend(f)

\* ---- Close --------------------------------------------------------------------

CloseFrame == UNCHANGED <<syncVars, abmVars, feedVars, waitVars, muteVars, beVars, bufVars, rateVars, ringVars, cpVars, espVars>>

\* Close is called: if err := tts.Stop(); err != nil { return err }
CloseStop ==
    /\ closer.pc = "idle"
    /\ IF ~isPlaying
       THEN /\ closer' = [pc |-> "player"]
            /\ UNCHANGED <<playerVars, isPlaying, isPaused, ctxDone, stopped, env, ret>>
            /\ Emit({})
       ELSE \E p \in DevPairs :
            /\ isPlaying' = FALSE
            /\ isPaused' = FALSE
            /\ ctxDone' = TRUE
            /\ PlayerStopEffect(p[1], p[2])
            /\ pbw' = pbw
            /\ Emit(PlayerStopCb(p[1], p[2]))
            /\ stopped' = TRUE
            /\ env' = [env EXCEPT !.devFails = @ + Failed(p)]
            /\ IF PlayerStopResult(p[1], p[2]).err = "nil"
               THEN /\ closer' = [pc |-> "player"]
                    /\ ret' = ret
               ELSE /\ closer' = [pc |-> "idle"]
                    /\ ret' = [op |-> "Close", err |-> PlayerStopResult(p[1], p[2]).err]
    /\ closed' = closed
    /\ UNCHANGED <<textBuffer, currentEngine, nEngines, pw>>
    /\ CloseFrame

\* the rest of Close: tts.player.Stop(), engine.Close() for every engine, and the
\* three close() calls; closing a closed channel panics
CloseRest ==
    /\ closer.pc = "player"
    /\ closer' = [pc |-> "idle"]
    /\ \E p \in DevPairs :
        /\ PlayerStopEffect(p[1], p[2])
        /\ pbw' = pbw
        /\ Emit(PlayerStopCb(p[1], p[2]))
        /\ env' = [env EXCEPT !.devFails = @ + Failed(p)]
        /\ IF PlayerStopResult(p[1], p[2]).err # "nil"
           THEN /\ ret' = [op |-> "Close", err |-> PlayerStopResult(p[1], p[2]).err]
                /\ closed' = closed
           ELSE /\ ret' = [op |-> "Close", err |-> IF closed THEN "panic" ELSE "nil"]
                /\ closed' = TRUE
    /\ UNCHANGED <<ttsVars, stopped>>
    /\ CloseFrame

CloseStep == CloseStop \/ CloseRest

\* ---- WaitForPlaybackComplete ---------------------------------------------------

\* The clock advances from one tick of the 100 ms ticker to the next. An instant is
\* compared by lastActivity.n, the number of updates so far: two readings of
\* time.Now() for different updates differ; lastActivity.at is the tick it fell in.
WaitFrame == UNCHANGED <<asyncVars, syncVars, abmVars, feedVars, closeVars, muteVars, beVars, bufVars, rateVars, ringVars, cpVars, espVars>>

\* The timeouts a caller passes.
WaitTimeouts == {1000, 3500}

\* quiet = -1 is the zero time.Time of noActivityStartTime.
NoWait == [pc |-> "idle", start |-> 0, seen |-> 0, quiet |-> -1, timeout |-> 0,
           tick |-> 0, err |-> "none", at |-> 0]

\* time passes until the ticker fires again; a waiting goroutine has handled the
\* tick before
AdvanceTime ==
    /\ now + TickMs <= MaxTime
    /\ wait.pc = "waiting" => wait.tick = now
    /\ now' = now + TickMs
    /\ UNCHANGED <<lastActivity, wait>>
    /\ WaitFrame

\* sp.stats.LastActivityTime = time.Now(), in Start, Stop and processAudioChunk
UpdateActivity ==
    /\ lastActivity.n < MaxActivity
    /\ lastActivity' = [n |-> lastActivity.n + 1, at |-> now]
    /\ UNCHANGED <<now, wait>>
    /\ WaitFrame

\* WaitForPlaybackComplete(timeout) is called
WaitCall ==
    /\ wait.pc = "idle"
    /\ now <= MaxWaitStart
    /\ \E t \in WaitTimeouts :
        wait' = [NoWait EXCEPT !.pc = "waiting", !.start = now, !.timeout = t, !.tick = now]
    /\ UNCHANGED <<now, lastActivity>>
    /\ WaitFrame

\* New activity is recorded but an open quiet window is kept.
WaitObserveKeepWindow(w) ==
    IF lastActivity.n > w.seen
    THEN [w EXCEPT !.seen = lastActivity.n]
    ELSE IF w.quiet = -1 THEN [w EXCEPT !.quiet = now] ELSE w

\* The local variables after the two branches on currentLastActivity.
WaitObserve(w) ==
    IF lastActivity.n > w.seen
    THEN [w EXCEPT !.seen = lastActivity.n, !.quiet = -1]
    ELSE IF w.quiet = -1 THEN [w EXCEPT !.quiet = now] ELSE w

\* case <-ticker.C: one pass of the loop body
WaitTick ==
    /\ wait.pc = "waiting"
    /\ wait.tick < now
    /\ LET w == [WaitObserve(wait) EXCEPT !.tick = now] IN
       wait' = IF w.quiet # -1 /\ now - w.quiet > QuietMs
               THEN [w EXCEPT !.pc = "done", !.err = "nil", !.at = now + SettleMs]
               ELSE IF now - w.start > w.timeout
               THEN [w EXCEPT !.pc = "done", !.err = "timeout", !.at = now]
               ELSE w
    /\ UNCHANGED <<now, lastActivity>>
    /\ WaitFrame

\* ---- engines.BaseEngine -------------------------------------------------------

BeFrame == UNCHANGED <<asyncVars, syncVars, abmVars, feedVars, closeVars, waitVars, muteVars, bufVars, rateVars, ringVars, cpVars, espVars>>

\* Initialize: doInitialize runs under be.mu, so Initializing is never observed
BeInitialize ==
    /\ IF be.status \in {"Initializing", "Ready"}
       THEN /\ be' = be
            /\ beRet' = [op |-> "Initialize", err |-> "nil"]
       ELSE \E ok \in BOOLEAN :
            /\ be' = IF ok THEN [be EXCEPT !.status = "Ready"]
                     ELSE [be EXCEPT !.status = "Error", !.lastError = TRUE]
            /\ beRet' = [op |-> "Initialize", err |-> IF ok THEN "nil" ELSE "init"]
    /\ UNCHANGED <<beWorker, beOrch>>
    /\ BeFrame

\* The callers of Synthesize: the orchestrator's synthesizeSentence, which ranges over
\* the returned channel before it calls again, and any other goroutine.
Callers == {"orch", "other"}
Jobs == 1..MaxSynth
NoJob == [pc |-> "none", by |-> "none"]

\* Synthesize: rejected unless Ready and idle, else a synthesisWorker is started with
\* a new output channel
BeSynthesize(c) ==
    /\ be.TotalSynthesis < MaxSynth
    /\ c = "orch" => beOrch.pc = "idle"
    /\ IF be.status # "Ready"
       THEN /\ beRet' = [op |-> "Synthesize", err |-> "notReady"]
            /\ UNCHANGED <<be, beWorker, beOrch>>
       ELSE IF be.isProcessing
       THEN /\ beRet' = [op |-> "Synthesize", err |-> "processing"]
            /\ UNCHANGED <<be, beWorker, beOrch>>
       ELSE /\ be' = [be EXCEPT !.status = "Synthesizing", !.isProcessing = TRUE,
                                !.TotalSynthesis = @ + 1]
            /\ beWorker' = [beWorker EXCEPT ![be.TotalSynthesis + 1] =
                                                [pc |-> "run", by |-> c]]
            /\ beOrch' = IF c = "orch" THEN [pc |-> "range", job |-> be.TotalSynthesis + 1]
                         ELSE beOrch
            /\ beRet' = [op |-> "Synthesize", err |-> "nil"]
    /\ BeFrame

\* synthesisWorker after DoSynthesize returned: the statistics
BeWorkerStats(j) ==
    /\ beWorker[j].pc = "run"
    /\ \E ok \in BOOLEAN :
        be' = IF ok THEN [be EXCEPT !.SuccessfulSynthesis = @ + 1]
              ELSE [be EXCEPT !.FailedSynthesis = @ + 1, !.lastError = TRUE]
    /\ beWorker' = [beWorker EXCEPT ![j].pc = "defer"]
    /\ UNCHANGED <<beRet, beOrch>>
    /\ BeFrame

\* the deferred function without its assignments
BeWorkerDeferNoReset(j) ==
    /\ beWorker[j].pc = "defer"
    /\ beWorker' = [beWorker EXCEPT ![j].pc = "closing"]
    /\ UNCHANGED <<be, beRet, beOrch>>
    /\ BeFrame

\* synthesisWorker returns: the deferred function sets isProcessing and status
\* under be.mu
BeWorkerDefer(j) ==
    /\ beWorker[j].pc = "defer"
    /\ be' = [be EXCEPT !.isProcessing = FALSE, !.status = "Ready"]
    /\ beWorker' = [beWorker EXCEPT ![j].pc = "closing"]
    /\ UNCHANGED <<beRet, beOrch>>
    /\ BeFrame

\* the deferred function, after the unlock: close(outputChan)
BeWorkerClose(j) ==
    /\ beWorker[j].pc = "closing"
    /\ beWorker' = [beWorker EXCEPT ![j].pc = "closed"]
    /\ UNCHANGED <<be, beRet, beOrch>>
    /\ BeFrame

\* synthesizeSentence: the range over audioChunks ends when the channel is closed
BeOrchRangeEnd ==
    /\ beOrch.pc = "range"
    /\ beWorker[beOrch.job].pc = "closed"
    /\ beOrch' = [beOrch EXCEPT !.pc = "idle"]
    /\ UNCHANGED <<be, beWorker, beRet>>
    /\ BeFrame

\* Close; close(be.stopChan) panics when an earlier Close has closed the channel
BeClose ==
    /\ IF be.status = "Closed"
       THEN /\ be' = be
            /\ beRet' = [op |-> "Close", err |-> "nil"]
       ELSE IF be.stopClosed
       THEN /\ be' = be
            /\ beRet' = [op |-> "Close", err |-> "panic"]
       ELSE /\ be' = [be EXCEPT !.status = "Closed", !.stopClosed = TRUE]
            /\ beRet' = [op |-> "Close", err |-> "nil"]
    /\ UNCHANGED <<beWorker, beOrch>>
    /\ BeFrame

\* ---- pkg AudioBuffer called directly -----------------------------------------

BufFrame ==
    /\ UNCHANGED <<playbackActive, playbackPaused, chGen, stopClosed, pbw, stats, stream,
                   ring, ttsVars, obsVars, ret, env>>
    /\ UNCHANGED <<syncVars, abmVars, feedVars, closeVars, waitVars, muteVars, beVars, rateVars, ringVars, cpVars, espVars>>

\* GetFromBuffer: a batch is received and its first chunk returned
BufGetFromBuffer ==
    /\ ttsAudioChan # <<>>
    /\ ttsAudioChan' = Tail(ttsAudioChan)
    /\ totalSamples' = totalSamples + (ChunkBytes \div BytesPerFrame)
    /\ buf' = [buf EXCEPT !.op = "GetFromBuffer", !.err = "nil", !.chunk = Head(ttsAudioChan)]
    /\ timings' = timings
    /\ BufFrame

\* GetFromBuffer: the timeout passes with nothing in the channel
BufGetTimeout ==
    /\ ttsAudioChan = <<>>
    /\ buf' = [buf EXCEPT !.op = "GetFromBuffer", !.err = "ErrBufferTimeout", !.chunk = 0]
    /\ UNCHANGED <<ttsAudioChan, timings, totalSamples>>
    /\ BufFrame

\* GetTimingInfo
BufGetTimingInfo ==
    /\ IF timings # <<>>
       THEN /\ timings' = Tail(timings)
            /\ buf' = [buf EXCEPT !.op = "GetTimingInfo", !.err = "nil", !.chunk = 0]
       ELSE /\ timings' = timings
            /\ buf' = [buf EXCEPT !.op = "GetTimingInfo", !.err = "ErrBufferTimeout",
                                  !.chunk = 0]
    /\ UNCHANGED <<ttsAudioChan, totalSamples>>
    /\ BufFrame

\* ClearBuffer: the timings are drained and totalSamples reset
BufClearBuffer ==
    /\ buf.clears < MaxBufClears
    /\ timings' = <<>>
    /\ totalSamples' = 0
    /\ buf' = [buf EXCEPT !.clears = @ + 1, !.op = "ClearBuffer", !.err = "nil", !.chunk = 0]
    /\ ttsAudioChan' = ttsAudioChan
    /\ BufFrame

\* ---- the synchronous-Play draft: text ---------------------------------------------

RECURSIVE FieldsAcc(_, _, _)
FieldsAcc(s, cur, out) ==
    IF s = <<>> THEN (IF cur = <<>> THEN out ELSE Append(out, cur))
    ELSE IF IsSpace(Head(s))
         THEN FieldsAcc(Tail(s), <<>>, IF cur = <<>> THEN out ELSE Append(out, cur))
         ELSE FieldsAcc(Tail(s), Append(cur, Head(s)), out)

\* strings.Fields
Fields(s) == FieldsAcc(s, <<>>, <<>>)

\* splitIntoSentences, the inner loop for one sentence and one delimiter: every part
\* but the last gets its delimiter back, parts are trimmed, empty parts are dropped
SplitKeep(sentence, d) ==
    LET parts == Split(sentence, d)
        kept == [k \in 1..Len(parts) |->
                    TrimSpace(IF k < Len(parts) THEN Append(parts[k], d) ELSE parts[k])]
    IN SelectSeq(kept, LAMBDA x : x # <<>>)

RECURSIVE SplitAll(_, _)
SplitAll(sentences, d) ==
    IF sentences = <<>> THEN <<>>
    ELSE SplitKeep(Head(sentences), d) \o SplitAll(Tail(sentences), d)

\* TextToAudioStream.splitIntoSentences of the draft: delimiters . ! ? and newline
splitIntoSentencesSync(text) ==
    SplitAll(SplitAll(SplitAll(SplitAll(<<text>>, "."), "!"), "?"), "\n")

\* ---- the synchronous-Play draft: handlers and goroutines ----------------------------

\* The texts the environment feeds to the draft: "a b.c", "a!" and "".
SyncTexts == {<<"a", " ", "b", ".", "c">>, <<"a", "!">>, <<>>}

Units == 1..MaxUnits
NoSim == [pc |-> "none", words |-> 0, k |-> 0]

\* The ctx or the engine's stopChan is done.
SimCancelled == syncCtxDone \/ engineStopped

SyncFrame == UNCHANGED <<asyncVars, abmVars, feedVars, closeVars, waitVars, muteVars, beVars, bufVars, rateVars, ringVars, cpVars, espVars>>

\* TextToAudioStream.Feed
SyncFeed ==
    /\ senv.feeds < MaxSyncFeeds
    /\ \E text \in SyncTexts : syncTextBuffer' = syncTextBuffer \o text
    /\ senv' = [senv EXCEPT !.feeds = @ + 1]
    /\ UNCHANGED <<syncIsPlaying, syncCtxDone, syncStopClosed, syn, sim, engineStopped,
                   AudioQueue, player, device>>
    /\ SyncFrame

\* TextToAudioStream.Play up to the call of PlayAudio
SyncPlay ==
    /\ senv.plays < MaxSyncPlays
    /\ IF syncIsPlaying
       THEN UNCHANGED <<syncIsPlaying, syn, player, senv>>
       ELSE /\ syncIsPlaying' = TRUE
            /\ syn' = [syn EXCEPT !.pc = "split"]
            /\ player' = [player EXCEPT !.pc = "start"]
            /\ senv' = [senv EXCEPT !.plays = @ + 1]
    /\ UNCHANGED <<syncTextBuffer, syncCtxDone, syncStopClosed, sim, engineStopped,
                   AudioQueue, device>>
    /\ SyncFrame

\* AudioPlayer.Stop
AudioPlayerStop(pl) ==
    IF pl.isPlaying THEN [pl EXCEPT !.isPlaying = FALSE, !.stopClosed = TRUE] ELSE pl

\* TextToAudioStream.Stop
SyncStop ==
    /\ IF ~syncIsPlaying
       THEN UNCHANGED <<syncIsPlaying, syncStopClosed, engineStopped, AudioQueue, player>>
       ELSE /\ engineStopped' = TRUE
            /\ AudioQueue' = IF engineStopped THEN AudioQueue ELSE <<>>
            /\ player' = AudioPlayerStop(player)
            /\ syncStopClosed' = TRUE
            /\ syncIsPlaying' = FALSE
    /\ UNCHANGED <<syncTextBuffer, syncCtxDone, syn, sim, device, senv>>
    /\ SyncFrame

\* the caller cancels the ctx it passed to Play
SyncCancel ==
    /\ ~syncCtxDone
    /\ syncCtxDone' = TRUE
    /\ UNCHANGED <<syncTextBuffer, syncIsPlaying, syncStopClosed, syn, sim, engineStopped,
                   AudioQueue, player, device, senv>>
    /\ SyncFrame

\* processTextSynthesis: split the buffered text
SynSplit ==
    /\ syn.pc = "split"
    /\ syn' = [syn EXCEPT !.pc = "loop", !.sents = splitIntoSentencesSync(syncTextBuffer)]
    /\ UNCHANGED <<syncTextBuffer, syncIsPlaying, syncCtxDone, syncStopClosed, sim,
                   engineStopped, AudioQueue, player, device, senv>>
    /\ SyncFrame

\* ESpeakEngine.Synthesize: "error", "nil" with nothing to say, or "go" when it
\* started simulateSynthesis and returned nil; espeak is what isESpeakAvailable finds
Synthesize(sentence, espeak) ==
    IF engineStopped \/ ~espeak THEN "error"
    ELSE IF Fields(sentence) = <<>> THEN "nil"
    ELSE "go"

\* processTextSynthesis: one round of the loop over the sentences
SynSynthesize ==
    /\ syn.pc = "loop"
    /\ syn.unit <= MaxUnits
    /\ IF syn.sents = <<>> \/ syncCtxDone \/ syncStopClosed
       THEN syn' = [syn EXCEPT !.pc = "done"] /\ sim' = sim
       ELSE /\ syn' = [syn EXCEPT !.sents = Tail(@), !.unit = @ + 1]
            /\ \E espeak \in BOOLEAN :
                 IF Synthesize(Head(syn.sents), espeak) = "go"
                 THEN sim' = [sim EXCEPT ![syn.unit] =
                                 [pc |-> "top", words |-> Len(Fields(Head(syn.sents))), k |-> 1]]
                 ELSE sim' = sim
    /\ UNCHANGED <<syncTextBuffer, syncIsPlaying, syncCtxDone, syncStopClosed,
                   engineStopped, AudioQueue, player, device, senv>>
    /\ SyncFrame

SimFrame ==
    /\ UNCHANGED <<syncTextBuffer, syncIsPlaying, syncCtxDone, syncStopClosed, syn,
                   engineStopped, player, device, senv>>
    /\ SyncFrame

\* simulateSynthesis: the select at the top of the loop over the words
SimTop(u) ==
    /\ sim[u].pc = "top"
    /\ sim' = [sim EXCEPT ![u].pc = IF SimCancelled THEN "done" ELSE "send"]
    /\ AudioQueue' = AudioQueue
    /\ SimFrame

\* BaseEngine.SendAudioData: case e.AudioQueue <- data, then the 50 ms sleep
SimSend(u) ==
    /\ sim[u].pc = "send"
    /\ Len(AudioQueue) < QueueCap
    /\ AudioQueue' = Append(AudioQueue, [unit |-> u, word |-> sim[u].k])
    /\ sim' = [sim EXCEPT ![u].pc = IF sim[u].k = sim[u].words THEN "end" ELSE "top",
                          ![u].k = @ + 1]
    /\ SimFrame

\* BaseEngine.SendAudioData: case <-ctx.Done() or <-e.stopChan
SimSendAborted(u) ==
    /\ sim[u].pc = "send"
    /\ SimCancelled
    /\ sim' = [sim EXCEPT ![u].pc = "done"]
    /\ AudioQueue' = AudioQueue
    /\ SimFrame

\* simulateSynthesis: the end marker, an empty chunk
SimEnd(u) ==
    /\ sim[u].pc = "end"
    /\ Len(AudioQueue) < QueueCap
    /\ AudioQueue' = Append(AudioQueue, [unit |-> u, word |-> 0])
    /\ sim' = [sim EXCEPT ![u].pc = "done"]
    /\ SimFrame

SimEndAborted(u) ==
    /\ sim[u].pc = "end"
    /\ SimCancelled
    /\ sim' = [sim EXCEPT ![u].pc = "done"]
    /\ AudioQueue' = AudioQueue
    /\ SimFrame

SimStep ==
    \E u \in Units :
        \/ SimTop(u) \/ SimSend(u) \/ SimSendAborted(u) \/ SimEnd(u) \/ SimEndAborted(u)

\* PlayAudio returns: the deferred p.Stop() runs, then Play's deferred isPlaying reset
PlayAudioReturn ==
    /\ player' = [AudioPlayerStop(player) EXCEPT !.pc = "done"]
    /\ syncIsPlaying' = FALSE

\* PlayAudio: p.Start()
PlayAudioStart ==
    /\ player.pc = "start"
    /\ \E ok \in BOOLEAN :
        IF ok /\ ~player.isPlaying
        THEN /\ player' = [player EXCEPT !.pc = "listen", !.isPlaying = TRUE]
             /\ syncIsPlaying' = syncIsPlaying
        ELSE /\ player' = [player EXCEPT !.pc = "done"]
             /\ syncIsPlaying' = FALSE
    /\ UNCHANGED <<syncTextBuffer, syncCtxDone, syncStopClosed, syn, sim, engineStopped,
                   AudioQueue, device, senv>>
    /\ SyncFrame

\* PlayAudio: case audioData := <-audioQueue
PlayAudioRecv ==
    /\ player.pc = "listen"
    /\ AudioQueue # <<>>
    /\ AudioQueue' = Tail(AudioQueue)
    /\ IF Head(AudioQueue).word = 0 \/ ~player.isPlaying
       THEN PlayAudioReturn /\ device' = device
       ELSE /\ device' = Append(device, Head(AudioQueue))
            /\ UNCHANGED <<player, syncIsPlaying>>
    /\ UNCHANGED <<syncTextBuffer, syncCtxDone, syncStopClosed, syn, sim, engineStopped,
                   senv>>
    /\ SyncFrame

\* PlayAudio: case <-ctx.Done() or <-p.stopChan
PlayAudioCancelled ==
    /\ player.pc = "listen"
    /\ syncCtxDone \/ player.stopClosed
    /\ PlayAudioReturn
    /\ UNCHANGED <<syncTextBuffer, syncCtxDone, syncStopClosed, syn, sim, engineStopped,
                   AudioQueue, device, senv>>
    /\ SyncFrame

\* ---- AudioBufferManager ---------------------------------------------------------------

\* What the producers hand over in one send: a slice of one or two chunks.
AbmBatches == {<<ChunkBytes>>, <<ChunkBytes, ChunkBytes>>}

RECURSIVE SumSeq(_)
SumSeq(q) == IF q = <<>> THEN 0 ELSE Head(q) + SumSeq(Tail(q))

RECURSIVE SumBatches(_)
SumBatches(q) == IF q = <<>> THEN 0 ELSE SumSeq(Head(q)) + SumBatches(Tail(q))

AbmFrame == UNCHANGED <<asyncVars, syncVars, feedVars, closeVars, waitVars, muteVars, beVars, bufVars, rateVars, ringVars, cpVars, espVars>>

\* AddToBuffer up to its select: "nil" when the chunk goes into audioBuffer
AddToBufferErr ==
    IF abm.isClosed \/ Len(abm.audioBuffer) >= AbmBufferSize THEN "ErrBufferFull" ELSE "nil"

\* AddToBuffer after the send: the bookkeeping under abm.mu
AbmAccountAdd(n) ==
    [abm EXCEPT !.totalSamples = @ + (n \div BytesPerFrame),
                !.bytesProcessed = @ + n,
                !.chunksProcessed = @ + 1]

\* AudioBufferManager.Start
AbmStart ==
    /\ abmProc.pc = "none"
    /\ abmProc' = [abmProc EXCEPT !.pc = "recv"]
    /\ UNCHANGED <<abm, abmTtsChan, abmAdd, abmGet, abmBytes, abmRet>>
    /\ AbmFrame

\* an engine hands a slice of chunks to ttsAudioChan
AbmProduce ==
    /\ abmBytes.handed < MaxAbmChunks * ChunkBytes
    /\ Len(abmTtsChan) < AudioChanCap
    /\ \E b \in AbmBatches :
        /\ abmTtsChan' = Append(abmTtsChan, b)
        /\ abmBytes' = [abmBytes EXCEPT !.handed = @ + SumSeq(b)]
    /\ UNCHANGED <<abm, abmProc, abmAdd, abmGet, abmRet>>
    /\ AbmFrame

\* processTTSAudio: the isClosed check and the receive from ttsAudioChan
ProcRecv ==
    /\ abmProc.pc = "recv"
    /\ IF abm.isClosed
       THEN abmProc' = [abmProc EXCEPT !.pc = "done"] /\ abmTtsChan' = abmTtsChan
       ELSE /\ abmTtsChan # <<>>
            /\ abmProc' = [abmProc EXCEPT !.pc = "add", !.batch = Head(abmTtsChan)]
            /\ abmTtsChan' = Tail(abmTtsChan)
    /\ UNCHANGED <<abm, abmAdd, abmGet, abmBytes, abmRet>>
    /\ AbmFrame

\* processTTSAudio: AddToBuffer(chunk.Data) for the next chunk of the slice; on an
\* error the loop continues with the next chunk
ProcAdd ==
    /\ abmProc.pc = "add"
    /\ IF abmProc.batch = <<>>
       THEN /\ abmProc' = [abmProc EXCEPT !.pc = "recv"]
            /\ UNCHANGED <<abm, abmBytes>>
       ELSE IF AddToBufferErr = "nil"
       THEN /\ abm' = [abm EXCEPT !.audioBuffer = Append(@, Head(abmProc.batch))]
            /\ abmProc' = [abmProc EXCEPT !.pc = "acct", !.chunk = Head(abmProc.batch),
                                          !.batch = Tail(@)]
            /\ abmBytes' = abmBytes
       ELSE /\ abmProc' = [abmProc EXCEPT !.batch = Tail(@)]
            /\ abmBytes' = [abmBytes EXCEPT !.dropped = @ + Head(abmProc.batch)]
            /\ abm' = abm
    /\ UNCHANGED <<abmTtsChan, abmAdd, abmGet, abmRet>>
    /\ AbmFrame

ProcAccount ==
    /\ abmProc.pc = "acct"
    /\ abm' = AbmAccountAdd(abmProc.chunk)
    /\ abmProc' = [abmProc EXCEPT !.pc = "add", !.chunk = 0]
    /\ UNCHANGED <<abmTtsChan, abmAdd, abmGet, abmBytes, abmRet>>
    /\ AbmFrame

\* a caller's AddToBuffer: the isClosed check under abm.mu.RLock, released before the
\* select
AddToBuffer ==
    /\ abmAdd.pc = "idle"
    /\ abmBytes.handed < MaxAbmChunks * ChunkBytes
    /\ IF abm.isClosed
       THEN /\ abmRet' = [op |-> "AddToBuffer", err |-> "ErrBufferFull", full |-> FALSE]
            /\ abmAdd' = abmAdd
       ELSE /\ abmAdd' = [pc |-> "send", chunk |-> ChunkBytes]
            /\ abmRet' = abmRet
    /\ UNCHANGED <<abm, abmTtsChan, abmProc, abmGet, abmBytes>>
    /\ AbmFrame

\* a caller's AddToBuffer: the select with its default; Close closes audioBuffer, and
\* a send on a closed channel panics
AddToBufferSend ==
    /\ abmAdd.pc = "send"
    /\ IF abm.isClosed
       THEN /\ abmRet' = [op |-> "AddToBuffer", err |-> "panic", full |-> FALSE]
            /\ abmAdd' = [pc |-> "idle", chunk |-> 0]
            /\ UNCHANGED <<abm, abmBytes>>
       ELSE IF Len(abm.audioBuffer) >= AbmBufferSize
       THEN /\ abmRet' = [op |-> "AddToBuffer", err |-> "ErrBufferFull", full |-> TRUE]
            /\ abmAdd' = [pc |-> "idle", chunk |-> 0]
            /\ UNCHANGED <<abm, abmBytes>>
       ELSE /\ abm' = [abm EXCEPT !.audioBuffer = Append(@, abmAdd.chunk)]
            /\ abmAdd' = [abmAdd EXCEPT !.pc = "acct"]
            /\ abmBytes' = [abmBytes EXCEPT !.handed = @ + abmAdd.chunk]
            /\ abmRet' = abmRet
    /\ UNCHANGED <<abmTtsChan, abmProc, abmGet>>
    /\ AbmFrame

\* a caller's AddToBuffer after the send
AddToBufferAccount ==
    /\ abmAdd.pc = "acct"
    /\ abm' = AbmAccountAdd(abmAdd.chunk)
    /\ abmAdd' = [pc |-> "idle", chunk |-> 0]
    /\ abmRet' = [op |-> "AddToBuffer", err |-> "nil", full |-> FALSE]
    /\ UNCHANGED <<abmTtsChan, abmProc, abmGet, abmBytes>>
    /\ AbmFrame

\* GetFromBuffer up to its select: a chunk is there, or the manager is closed
AbmGetFromBuffer ==
    /\ abmGet.pc = "idle"
    /\ IF abm.isClosed
       THEN /\ abmRet' = [op |-> "GetFromBuffer", err |-> "ErrBufferEmpty", full |-> FALSE]
            /\ UNCHANGED <<abm, abmGet, abmBytes>>
       ELSE /\ abm.audioBuffer # <<>>
            /\ abm' = [abm EXCEPT !.audioBuffer = Tail(@)]
            /\ abmGet' = [pc |-> "acct", chunk |-> Head(abm.audioBuffer)]
            /\ abmBytes' = [abmBytes EXCEPT !.taken = @ + Head(abm.audioBuffer)]
            /\ abmRet' = abmRet
    /\ UNCHANGED <<abmTtsChan, abmProc, abmAdd>>
    /\ AbmFrame

\* GetFromBuffer: the timeout passes with nothing in audioBuffer
AbmGetTimeout ==
    /\ abmGet.pc = "idle"
    /\ ~abm.isClosed
    /\ abm.audioBuffer = <<>>
    /\ abmRet' = [op |-> "GetFromBuffer", err |-> "ErrBufferTimeout", full |-> FALSE]
    /\ UNCHANGED <<abm, abmTtsChan, abmProc, abmAdd, abmGet, abmBytes>>
    /\ AbmFrame

\* GetFromBuffer after the receive
AbmGetAccount ==
    /\ abmGet.pc = "acct"
    /\ abm' = [abm EXCEPT !.totalSamples = @ - (abmGet.chunk \div BytesPerFrame)]
    /\ abmGet' = [pc |-> "idle", chunk |-> 0]
    /\ abmRet' = [op |-> "GetFromBuffer", err |-> "nil", full |-> FALSE]
    /\ UNCHANGED <<abmTtsChan, abmProc, abmAdd, abmBytes>>
    /\ AbmFrame

\* AudioBufferManager.ClearBuffer
AbmClearBuffer ==
    /\ abmBytes.clears < MaxAbmClears
    /\ abm' = [abm EXCEPT !.audioBuffer = <<>>, !.totalSamples = 0]
    /\ abmBytes' = [abmBytes EXCEPT !.discarded = @ + SumSeq(abm.audioBuffer),
                                    !.clears = @ + 1]
    /\ UNCHANGED <<abmTtsChan, abmProc, abmAdd, abmGet, abmRet>>
    /\ AbmFrame

\* AudioBufferManager.Close
AbmClose ==
    /\ ~abm.isClosed
    /\ abm' = [abm EXCEPT !.isClosed = TRUE]
    /\ UNCHANGED <<abmTtsChan, abmProc, abmAdd, abmGet, abmBytes, abmRet>>
    /\ AbmFrame

\* ---- AudioStream.selectBestSampleRate -------------------------------------------

RateFrame == UNCHANGED <<asyncVars, syncVars, abmVars, feedVars, closeVars, waitVars, muteVars, beVars, bufVars, ringVars, cpVars, espVars>>

\* supportedRates, in the order of the slice
supportedRates == <<8000, 11025, 16000, 22050, 44100, 48000>>

\* The default sample rates of the devices and the rates a configuration asks for.
DeviceRates == {32000, 44100, 48000, 96000}
DesiredRates == {supportedRates[k] : k \in 1..Len(supportedRates)}
                    \cup {1000 * k : k \in 4..50} \cup {88200, 96000}

abs(x) == IF x < 0 THEN -x ELSE x

\* the second loop of selectBestSampleRate from supportedRates[k] on: closest is the
\* rate chosen so far
RECURSIVE closestFrom(_, _, _)
closestFrom(k, desired, closest) ==
    IF k > Len(supportedRates) THEN closest
    ELSE IF abs(supportedRates[k] - desired) < abs(closest - desired)
         THEN closestFrom(k + 1, desired, supportedRates[k])
         ELSE closestFrom(k + 1, desired, closest)

selectBestSampleRate(deviceDefault, desiredRate) ==
    IF \E k \in 1..Len(supportedRates) : supportedRates[k] = desiredRate
    THEN desiredRate
    ELSE closestFrom(1, desiredRate, deviceDefault)

\* a call of selectBestSampleRate
SelectBestSampleRate ==
    /\ \E d \in DeviceRates, r \in DesiredRates :
        sr' = [device |-> d, desired |-> r, chosen |-> selectBestSampleRate(d, r)]
    /\ RateFrame

\* ---- AudioStream: WriteAudioData and audioCallback with sample contents ------------

RingFrame == UNCHANGED <<syncVars, abmVars, feedVars, closeVars, waitVars, muteVars, beVars, bufVars, rateVars, cpVars, espVars>>

\* int16(lo) | int16(hi)<<8 as a signed 16-bit value
int16(lo, hi) == LET v == lo + 256 * hi IN IF v >= 32768 THEN v - 65536 ELSE v

\* convertInt16ToFloat32: one sample per two bytes; a sample value/32768.0 is written
\* as its numerator, which float32 holds exactly
convertInt16ToFloat32(data) ==
    [k \in 1..(Len(data) \div 2) |-> int16(data[2 * k - 1], data[2 * k])]

\* the PCM bytes of n samples numbered from first: little-endian 16-bit values
PcmBytes(first, n) ==
    [j \in 1..(2 * n) |-> IF j % 2 = 1 THEN (first + (j - 1) \div 2) % 256
                                        ELSE (first + (j - 1) \div 2) \div 256]

\* AudioStream.WriteAudioData(data): rejected when the stream is not active; queued
\* when audioBuffer has room; ErrBufferFull when it stays full for 100 ms
StreamWrite ==
    /\ \E n \in 1..MaxChunkSamples :
        /\ devAccepted + n <= MaxSamples
        /\ IF WriteAudioData = "ErrStreamNotActive"
           THEN /\ devRet' = "ErrStreamNotActive"
                /\ UNCHANGED <<devBuffer, devAccepted>>
           ELSE IF Len(devBuffer) < DevBufferCap
           THEN /\ devBuffer' = Append(devBuffer,
                                       convertInt16ToFloat32(PcmBytes(devAccepted + 1, n)))
                /\ devAccepted' = devAccepted + n
                /\ devRet' = "nil"
           ELSE /\ devRet' = "ErrBufferFull"
                /\ UNCHANGED <<devBuffer, devAccepted>>
    /\ UNCHANGED <<devOut, devCopied>>
    /\ UNCHANGED asyncVars
    /\ RingFrame

\* audioCallback(out): one block is taken, its first len(out) samples are copied and
\* the rest of out is zeroed; with no block queued out is all zeros
audioCallback ==
    /\ stream.isActive
    /\ IF devBuffer # <<>>
       THEN LET audioData == Head(devBuffer)
                copyLen == IF Len(audioData) > OutLen THEN OutLen ELSE Len(audioData)
            IN /\ devOut' = [k \in 1..OutLen |-> IF k <= copyLen THEN audioData[k] ELSE 0]
               /\ devCopied' = devCopied \o SubSeq(audioData, 1, copyLen)
               /\ devBuffer' = Tail(devBuffer)
       ELSE /\ devOut' = [k \in 1..OutLen |-> 0]
            /\ UNCHANGED <<devCopied, devBuffer>>
    /\ UNCHANGED <<devAccepted, devRet>>
    /\ UNCHANGED asyncVars
    /\ RingFrame

\* ---- StreamPlayer of streamPlayer.go: Pause and Resume signal by close() ----------

CpFrame == UNCHANGED <<asyncVars, syncVars, abmVars, feedVars, closeVars, waitVars, muteVars, beVars, bufVars, rateVars, ringVars, espVars>>

\* StreamPlayer.Start: the device opens and starts or not; on success the three
\* channels are made anew and the playbackWorker is spawned
CpStart ==
    /\ cpRet.err # "panic"
    /\ \E ok \in BOOLEAN :
        IF cp.active
        THEN /\ cpRet' = [op |-> "Start", err |-> "ErrPlayerAlreadyPlaying"]
             /\ UNCHANGED <<cp, cpw>>
        ELSE IF ~ok
        THEN /\ cpRet' = [op |-> "Start", err |-> "StartFailed"]
             /\ UNCHANGED <<cp, cpw>>
        ELSE /\ cp' = [cp EXCEPT !.active = TRUE, !.paused = FALSE,
                                 !.pauseClosed = FALSE, !.resumeClosed = FALSE]
             /\ cpw' = "select"
             /\ cpRet' = [op |-> "Start", err |-> "nil"]
    /\ CpFrame

\* StreamPlayer.Pause: close(sp.pauseEvent) panics when the channel is closed already
CpPause ==
    /\ cp.pauses < MaxCpPauses
    /\ cpRet.err # "panic"
    /\ IF ~cp.active
       THEN /\ cpRet' = [op |-> "Pause", err |-> "ErrPlayerNotPlaying"]
            /\ cp' = [cp EXCEPT !.pauses = @ + 1]
       ELSE IF cp.paused
       THEN /\ cpRet' = [op |-> "Pause", err |-> "ErrPlayerPaused"]
            /\ cp' = [cp EXCEPT !.pauses = @ + 1]
       ELSE /\ cp' = [cp EXCEPT !.paused = TRUE, !.pauseClosed = TRUE, !.pauses = @ + 1]
            /\ cpRet' = [op |-> "Pause", err |-> IF cp.pauseClosed THEN "panic" ELSE "nil"]
    /\ cpw' = cpw
    /\ CpFrame

\* StreamPlayer.Resume: close(sp.resumeEvent) panics when the channel is closed already
CpResume ==
    /\ cp.resumes < MaxCpResumes
    /\ cpRet.err # "panic"
    /\ IF ~cp.active
       THEN /\ cpRet' = [op |-> "Resume", err |-> "ErrPlayerNotPlaying"]
            /\ cp' = [cp EXCEPT !.resumes = @ + 1]
       ELSE IF ~cp.paused
       THEN /\ cpRet' = [op |-> "Resume", err |-> "nil"]
            /\ cp' = [cp EXCEPT !.resumes = @ + 1]
       ELSE /\ cp' = [cp EXCEPT !.paused = FALSE, !.resumeClosed = TRUE, !.resumes = @ + 1]
            /\ cpRet' = [op |-> "Resume", err |-> IF cp.resumeClosed THEN "panic" ELSE "nil"]
    /\ cpw' = cpw
    /\ CpFrame

\* playbackWorker, outer select: case <-sp.pauseEvent (ready once the channel is closed)
CpWorkerPauseEvent ==
    /\ cpw = "select"
    /\ cpRet.err # "panic"
    /\ cp.pauseClosed
    /\ cpw' = "parked"
    /\ UNCHANGED <<cp, cpRet>>
    /\ CpFrame

\* playbackWorker, inner select: case <-sp.resumeEvent, then continue
CpWorkerResumeEvent ==
    /\ cpw = "parked"
    /\ cpRet.err # "panic"
    /\ cp.resumeClosed
    /\ cpw' = "select"
    /\ UNCHANGED <<cp, cpRet>>
    /\ CpFrame

\* playbackWorker, outer select: case <-ticker.C, up to the call of processAudioChunk
CpWorkerTick ==
    /\ cpw = "select"
    /\ cpRet.err # "panic"
    /\ cpw' = "tick"
    /\ UNCHANGED <<cp, cpRet>>
    /\ CpFrame

\* the tick's work is done: back to the outer select
CpWorkerTickDone ==
    /\ cpw = "tick"
    /\ cpRet.err # "panic"
    /\ cpw' = "select"
    /\ UNCHANGED <<cp, cpRet>>
    /\ CpFrame

\* ---- BaseEngine.Stop against ESpeakEngine.Synthesize -----------------------------

EspFrame == UNCHANGED <<asyncVars, syncVars, abmVars, feedVars, closeVars, waitVars, muteVars, beVars, bufVars, rateVars, ringVars, cpVars>>

\* BaseEngine.Stop, under e.mu: close(e.stopChan) unless the status is Stopped;
\* closing a closed channel panics. No synthesis goroutine runs here, so the two
\* queues Stop drains are empty.
EspStop ==
    /\ esp.stops < MaxEspStops
    /\ espRet.err # "panic"
    /\ IF esp.status # "Stopped"
       THEN /\ esp' = [esp EXCEPT !.status = "Stopped", !.stopClosed = TRUE, !.stops = @ + 1]
            /\ espRet' = [op |-> "Stop", err |-> IF esp.stopClosed THEN "panic" ELSE "nil"]
       ELSE /\ esp' = [esp EXCEPT !.stops = @ + 1]
            /\ espRet' = [op |-> "Stop", err |-> "nil"]
    /\ espSyn' = espSyn
    /\ EspFrame

\* ESpeakEngine.Synthesize: IsStopped, then SetStatus(Synthesizing)
EspSynthesizeEnter ==
    /\ espSyn = "idle"
    /\ esp.synths < MaxEspSynths
    /\ espRet.err # "panic"
    /\ IF esp.stopClosed
       THEN /\ espRet' = [op |-> "Synthesize", err |-> "EngineStopped"]
            /\ esp' = [esp EXCEPT !.synths = @ + 1]
            /\ espSyn' = espSyn
       ELSE /\ esp' = [esp EXCEPT !.status = "Synthesizing", !.synths = @ + 1]
            /\ espSyn' = "body"
            /\ espRet' = espRet
    /\ EspFrame

\* ESpeakEngine.Synthesize returns (espeak missing, no words, or simulateSynthesis
\* spawned): the deferred SetStatus(Idle)
EspSynthesizeReturn ==
    /\ espSyn = "body"
    /\ espRet.err # "panic"
    /\ \E err \in {"nil", "ESpeakUnavailable"} :
        espRet' = [op |-> "Synthesize", err |-> err]
    /\ esp' = [esp EXCEPT !.status = "Idle"]
    /\ espSyn' = "idle"
    /\ EspFrame

\* ---- specifications -------------------------------------------------------------

Init ==
    /\ playbackActive = FALSE
    /\ playbackPaused = FALSE
    /\ chGen = 0
    /\ stopClosed = {}
    /\ pbw = [w \in Workers |-> NoWorker]
    /\ stats = [BytesPlayed |-> 0, ChunksPlayed |-> 0, WordsPlayed |-> 0]
    /\ stream = [isOpen |-> FALSE, isActive |-> FALSE, isClosed |-> FALSE,
                 lastError |-> FALSE]
    /\ ring = <<>>
    /\ ttsAudioChan = <<>>
    /\ timings = <<>>
    /\ totalSamples = 0
    /\ isPlaying = FALSE
    /\ isPaused = FALSE
    /\ ctxDone = FALSE
    /\ textBuffer = <<>>
    /\ currentEngine = 0
    /\ nEngines \in 1..MaxEngines
    /\ pw = [i \in PlayWorkers |-> NoPlayWorker]
    /\ cb = [n \in CountedCallbacks |-> 0]
    /\ stopped = FALSE
    /\ lastCb = {}
    /\ ret = [op |-> "none", err |-> "nil"]
    /\ env = [chunks |-> 0, timings |-> 0, pauses |-> 0, devFails |-> 0,
              feeds |-> 0, plays |-> 0, engFails |-> 0]
    /\ syncTextBuffer = <<>>
    /\ syncIsPlaying = FALSE
    /\ syncCtxDone = FALSE
    /\ syncStopClosed = FALSE
    /\ syn = [pc |-> "none", sents |-> <<>>, unit |-> 1]
    /\ sim = [u \in Units |-> NoSim]
    /\ engineStopped = FALSE
    /\ AudioQueue = <<>>
    /\ player = [pc |-> "none", isPlaying |-> FALSE, stopClosed |-> FALSE]
    /\ device = <<>>
    /\ senv = [feeds |-> 0, plays |-> 0]
    /\ abm = [audioBuffer |-> <<>>, totalSamples |-> 0, isClosed |-> FALSE,
              bytesProcessed |-> 0, chunksProcessed |-> 0]
    /\ abmTtsChan = <<>>
    /\ abmProc = [pc |-> "none", batch |-> <<>>, chunk |-> 0]
    /\ abmAdd = [pc |-> "idle", chunk |-> 0]
    /\ abmGet = [pc |-> "idle", chunk |-> 0]
    /\ abmBytes = [handed |-> 0, taken |-> 0, discarded |-> 0, dropped |-> 0, clears |-> 0]
    /\ abmRet = [op |-> "none", err |-> "nil", full |-> FALSE]
    /\ feeders = [f \in Feeders |-> NoFeeder]
    /\ mu = 0
    /\ closer = [pc |-> "idle"]
    /\ closed = FALSE
    /\ now = 0
    /\ lastActivity = [n |-> 0, at |-> 0]
    /\ wait = NoWait
    /\ muted = FALSE
    /\ be = [status |-> "Uninitialized", isProcessing |-> FALSE, lastError |-> FALSE,
             stopClosed |-> FALSE, TotalSynthesis |-> 0, SuccessfulSynthesis |-> 0,
             FailedSynthesis |-> 0]
    /\ beWorker = [j \in Jobs |-> NoJob]
    /\ beOrch = [pc |-> "idle", job |-> 0]
    /\ beRet = [op |-> "none", err |-> "nil"]
    /\ buf = [clears |-> 0, op |-> "none", err |-> "nil", chunk |-> 0]
    /\ sr = [device |-> 0, desired |-> 0, chosen |-> 0]
    /\ devBuffer = <<>>
    /\ devOut = [k \in 1..OutLen |-> 0]
    /\ devCopied = <<>>
    /\ devAccepted = 0
    /\ devRet = "none"
    /\ cp = [active |-> FALSE, paused |-> FALSE, pauseClosed |-> FALSE,
             resumeClosed |-> FALSE, pauses |-> 0, resumes |-> 0]
    /\ cpw = "none"
    /\ cpRet = [op |-> "none", err |-> "nil"]
    /\ esp = [status |-> "Idle", stopClosed |-> FALSE, stops |-> 0, synths |-> 0]
    /\ espSyn = "idle"
    /\ espRet = [op |-> "none", err |-> "nil"]

\* the StreamPlayer driven directly
NextPlayer ==
    \/ PlayerStart \/ PlayerStop \/ PlayerPause \/ PlayerResume
    \/ PlayerMute \/ PlayerUnmute
    \/ PlaybackWorkerStep
    \/ AudioCallback \/ ProduceChunk \/ AddTimingInfo

SpecPlayer == Init /\ [][NextPlayer]_vars

\* the orchestrator with its player
Next ==
    \/ Feed \/ Play \/ Stop \/ Pause \/ Resume
    \/ PlayWorkerStep \/ EngineStep
    \/ PlaybackWorkerStep
    \/ AudioCallback

Spec == Init /\ [][Next]_vars

\* the synchronous-Play draft with the ESpeak engine
NextSync ==
    \/ SyncFeed \/ SyncPlay \/ SyncStop \/ SyncCancel
    \/ SynSplit \/ SynSynthesize
    \/ SimStep
    \/ PlayAudioStart \/ PlayAudioRecv \/ PlayAudioCancelled

SpecSync == Init /\ [][NextSync]_vars

\* the pkg AudioBuffer with a producer and a consumer calling it directly
NextBuf ==
    \/ ProduceChunk \/ AddTimingInfo
    \/ BufGetFromBuffer \/ BufGetTimeout \/ BufGetTimingInfo
    \/ BufClearBuffer

SpecBuf == Init /\ [][NextBuf]_vars

\* an engines.BaseEngine and its callers
NextEngine ==
    \/ BeInitialize
    \/ \E c \in Callers : BeSynthesize(c)
    \/ \E j \in Jobs : BeWorkerStats(j)
    \/ \E j \in Jobs : BeWorkerDefer(j)
    \/ \E j \in Jobs : BeWorkerClose(j)
    \/ BeOrchRangeEnd
    \/ BeClose

SpecEngine == Init /\ [][NextEngine]_vars

\* a goroutine in WaitForPlaybackComplete while playback activity goes on
NextWait == AdvanceTime \/ UpdateActivity \/ WaitCall \/ WaitTick

SpecWait == Init /\ [][NextWait]_vars

\* the orchestrator with a goroutine calling Close, followed until Close has closed the
\* channels
NextClose ==
    \/ CloseStep
    \/ ~closed /\ Feed
    \/ ~closed /\ Play
    \/ ~closed /\ Stop
    \/ ~closed /\ PlayWorkerStep
    \/ ~closed /\ EngineStep
    \/ ~closed /\ PlaybackWorkerStep
    \/ ~closed /\ AudioCallback

SpecClose == Init /\ [][NextClose]_vars

\* the orchestrator with concurrent callers of Feed; the player's goroutines stand still
NextFeed ==
    \/ FeederStep
    \/ Play \/ Stop
    \/ PlayWorkerStep \/ EngineStep

SpecFeed == Init /\ [][NextFeed]_vars

\* the AudioBufferManager with its producers and its consumer
NextAbm ==
    \/ AbmStart \/ AbmProduce
    \/ ProcRecv \/ ProcAdd \/ ProcAccount
    \/ AddToBuffer \/ AddToBufferSend \/ AddToBufferAccount
    \/ AbmGetFromBuffer \/ AbmGetTimeout \/ AbmGetAccount
    \/ AbmClearBuffer \/ AbmClose

SpecAbm == Init /\ [][NextAbm]_vars

\* the orchestrator when every goroutine that can take a step eventually takes one
FairSpec ==
    /\ Spec
    /\ WF_vars(PlayWorkerStep)
    /\ WF_vars(EngineStep)
    /\ WF_vars(PlaybackWorkerStep)

\* ---- properties ---------------------------------------------------------------------

\* No playWorker, engine goroutine or playbackWorker is running.
NoPlayWorkerRunning == \A i \in PlayWorkers : ~Running(i) /\ pw[i].eng # "run"
NoPlaybackWorkerRunning == \A w \in Workers : pbw[w].pc \in {"none", "done"}

\* C1: while the player stays active and paused (Pause has returned nil, neither
\* Resume nor Stop has been called since), no step increases BytesPlayed.
C1_PauseFreeze ==
    [][(playbackActive /\ playbackPaused /\ playbackActive' /\ playbackPaused')
         => stats'.BytesPlayed = stats.BytesPlayed]_vars

\* C2: a playbackWorker of the active session is parked waiting for the resume
\* signal only while the player reports paused.
C2_ParkedOnlyWhilePaused ==
    \A w \in Workers : (playbackActive /\ AtParked(w)) => playbackPaused

\* C3: at most one playWorker goroutine of the orchestrator is running.
C3_AtMostOnePlayWorker == Cardinality({i \in PlayWorkers : Running(i)}) <= 1

\* C4: once Stop has acted on a playing session and its workers have finished,
\* OnPlaybackStop and OnTextStreamStop have each fired exactly once in that session.
C4_StopCallbacksOnce ==
    (stopped /\ NoPlayWorkerRunning /\ NoPlaybackWorkerRunning)
        => (cb["OnPlaybackStop"] = 1 /\ cb["OnTextStreamStop"] = 1)

\* C5: a session that is playing runs under a context that is not cancelled.
C5_FreshSession == isPlaying => ~ctxDone

\* C6: after Start, Stop, Start with no device failure, the second session's
\* audio stream reports active.
C6_SecondSessionStreamActive ==
    (playbackActive /\ chGen >= 2 /\ env.devFails = 0) => IsStreamActive

\* C7: after Stop has acted on a playing session, unless Play is called again,
\* eventually no playWorker and no playbackWorker is running.
C7_WorkersTerminate ==
    stopped ~> (~stopped \/ (NoPlayWorkerRunning /\ NoPlaybackWorkerRunning))

\* C8: with no device failure, Stop returns nil, and whenever is_playing is false
\* and no playWorker is running the player is inactive.
C8_StopLeavesPlayerInactive ==
    env.devFails = 0 =>
        /\ ret.op = "Stop" => ret.err = "nil"
        /\ (~isPlaying /\ NoPlayWorkerRunning) => ~playbackActive

\* C9: once Stop has acted, the only callbacks a step invokes are OnPlaybackStop
\* and OnTextStreamStop, and OnPlaybackStop is invoked at most once.
C9_NoCallbacksAfterStop ==
    stopped => /\ lastCb \subseteq {"OnPlaybackStop", "OnTextStreamStop"}
               /\ cb["OnPlaybackStop"] <= 1

\* A chunk the engine produces before another: an earlier word of the same
\* sentence, or any word of an earlier sentence.
ProducedBefore(a, b) == a.unit < b.unit \/ (a.unit = b.unit /\ a.word < b.word)

\* C10: the chunks written to the device are in production order, sentence by
\* sentence in segmentation order.
C10_DeviceOrder ==
    \A i, j \in 1..Len(device) : i < j => ProducedBefore(device[i], device[j])

\* Bytes handed to the AudioBufferManager that are still on their way.
AbmInFlight == SumBatches(abmTtsChan) + SumSeq(abmProc.batch) + SumSeq(abm.audioBuffer)

\* C11: the bytes handed to the pipeline are the bytes the consumer dequeued, the
\* bytes ClearBuffer discarded and the bytes still queued; none is lost.
C11_ByteConservation ==
    abmBytes.handed = abmBytes.taken + abmBytes.discarded + AbmInFlight

\* No AddToBuffer or GetFromBuffer call is between its channel operation and its
\* bookkeeping.
AbmQuiescent == abmProc.pc # "acct" /\ abmAdd.pc = "idle" /\ abmGet.pc = "idle"

\* C12: totalSamples is never negative and, whenever no call is in progress, it is
\* 0 exactly when audioBuffer is empty.
C12_BufferAccounting ==
    /\ abm.totalSamples >= 0
    /\ AbmQuiescent => (abm.totalSamples = 0 <=> abm.audioBuffer = <<>>)

\* C13: an AddToBuffer that finds audioBuffer at capacity does not return an error.
C13_PutBlocksAtCapacity ==
    ~(abmRet.op = "AddToBuffer" /\ abmRet.full /\ abmRet.err # "nil")

\* C14: a unit is attempted at most once per configured engine: a playWorker about
\* to call Synthesize has failed on the unit fewer times than there are engines.
C14_BoundedAttempts ==
    \A i \in PlayWorkers : pw[i].pc = "synth" => pw[i].tries < nEngines

\* C15: no step takes a playWorker from a synthesis attempt to its end: an engine
\* error never terminates the playWorker.
C15_EngineErrorKeepsWorker ==
    [][\A i \in PlayWorkers : pw[i].pc = "synth" => pw'[i].pc # "done"]_vars

\* C16: a step that fires OnEngineSwitch has fired OnEngineError for the failed
\* engine first.
C16_ErrorBeforeSwitch ==
    "OnEngineSwitch" \in lastCb => "OnEngineError" \in lastCb

\* A step of Feed: the only action that spends a feed.
FeedStep == env.feeds' = env.feeds + 1

\* C17: a Feed made while a Play session is running, with room in textBuffer,
\* appends its text to textBuffer.
C17_FeedWhilePlaying ==
    [][(FeedStep /\ isPlaying /\ Len(textBuffer) < TextBufferCap)
          => Len(textBuffer') = Len(textBuffer) + 1]_vars

\* The callers of Feed that hold tts.mu.
InFeed == {f \in Feeders : feeders[f].pc \in {"check", "send"}}

\* Caller f's Feed returns in this step.
FeedReturns(f) == feeders[f].pc # "done" /\ feeders'[f].pc = "done"

\* C18: concurrent Feed calls are serialised: at most one caller is inside Feed and it
\* can always go on; a call that returns nil has appended its text once, any other
\* step of a caller leaves textBuffer alone; a call returns once; textBuffer grows
\* only by the text of a call returning nil and shrinks only by the playWorker
\* taking its head.
C18_FeedSerialised ==
    /\ [](/\ Cardinality(InFeed) <= 1
          /\ mu = 0 <=> InFeed = {}
          /\ \A f \in InFeed : mu = f /\ ENABLED (FeedCheck(f) \/ FeedSend(f)))
    /\ [][/\ \A f \in Feeders :
               /\ feeders[f].pc = "done" => feeders'[f] = feeders[f]
               /\ feeders'[f] # feeders[f] =>
                     /\ \A g \in Feeders \ {f} : feeders'[g] = feeders[g]
                     /\ IF FeedReturns(f) /\ feeders'[f].err = "nil"
                        THEN textBuffer' = Append(textBuffer, feeders[f].text)
                        ELSE textBuffer' = textBuffer
          /\ Len(textBuffer') > Len(textBuffer) =>
                \E f \in Feeders : FeedReturns(f) /\ feeders'[f].err = "nil"
          /\ Len(textBuffer') < Len(textBuffer) =>
                /\ textBuffer' = Tail(textBuffer)
                /\ feeders' = feeders]_vars

\* Two concurrent calls have returned: one accepted, one refused by a full textBuffer.
C18_Witness ==
    \E f, g \in Feeders : feeders[f].err = "nil" /\ feeders[g].err = "full"

\* C19: a Feed that accepts a text of at least one code point invokes OnCharacter.
C19_OnCharacterPerCodePoint ==
    [][(FeedStep /\ textBuffer' # textBuffer /\ Len(textBuffer'[Len(textBuffer')]) > 0)
          => "OnCharacter" \in lastCb']_vars

\* C20: every Close returns nil and leaves the orchestrator cleaned up: not playing,
\* the player stopped, engines and channels closed.
C20_CloseReturnsNil ==
    ret.op = "Close" => (ret.err = "nil" /\ closed /\ ~isPlaying /\ ~playbackActive)

\* C21: a Pause of the orchestrator that returns an error leaves isPaused as it was.
C21_PauseErrorKeepsState ==
    [][(env.pauses' = env.pauses + 1 /\ PauseErr # "nil") => isPaused' = isPaused]_vars

\* WaitForPlaybackComplete returns in this step.
WaitReturns == wait.pc = "waiting" /\ wait'.pc = "done"

\* C22: WaitForPlaybackComplete returns nil only at a tick more than 3 s after its
\* quiet window began and after the last update of LastActivityTime; it returns the
\* timeout error only when the timeout has elapsed and the quiet period has not
\* completed; and it goes on waiting only while neither has happened.
C22_WaitQuietOrTimeout ==
    /\ [](wait.pc = "waiting" =>
             /\ wait.tick - wait.start <= wait.timeout
             /\ wait.quiet # -1 => wait.tick - wait.quiet <= QuietMs)
    /\ [][WaitReturns =>
             IF wait'.err = "nil"
             THEN /\ wait'.quiet # -1
                  /\ now - wait'.quiet > QuietMs
                  /\ lastActivity.n > 0 => now - lastActivity.at > QuietMs
             ELSE /\ wait'.err = "timeout"
                  /\ now - wait.start > wait.timeout
                  /\ wait'.quiet = -1 \/ now - wait'.quiet <= QuietMs]_vars

\* A wait that returned nil after playback activity had restarted its quiet window.
C22_Witness ==
    /\ wait.err = "nil"
    /\ wait.seen > 0
    /\ wait.quiet > wait.start + TickMs

\* C23: a chunk the playbackWorker writes while the player is muted reaches the
\* device queue as silence (0), not as the chunk.
C23_MutedWritesSilence ==
    [][(muted /\ Len(ring') > Len(ring)) => ring'[Len(ring')] = 0]_vars

\* C24: Closed is terminal: no step changes the status of a closed engine.
C24_ClosedIsTerminal ==
    [][be.status = "Closed" => be'.status = "Closed"]_vars

\* C25: once the engine is stopped nothing more is enqueued: no step taken with
\* stopChan closed lengthens AudioQueue.
C25_StoppedEngineEnqueuesNothing ==
    [][engineStopped => Len(AudioQueue') <= Len(AudioQueue)]_vars

\* C26: a ClearBuffer leaves totalSamples at 0 and both the PCM queue and the timing
\* queue empty.
C26_ClearEmptiesQueues ==
    [][buf'.clears = buf.clears + 1
          => (totalSamples' = 0 /\ timings' = <<>> /\ ttsAudioChan' = <<>>)]_vars

\* C30: totalSamples never exceeds the frames of the chunks queued in the PCM queue
\* (so it is 0 once every enqueued chunk has been dequeued).
C30_SamplesWithinQueued ==
    totalSamples <= Len(ttsAudioChan) * (ChunkBytes \div BytesPerFrame)

\* C27: after a Start that failed on opening or starting the audio stream, the player
\* is not active and the stream is not left open.
C27_FailedStartLeavesStreamClosed ==
    (ret.op = "PlayerStart" /\ ret.err \in {"OpenFailed", "StartFailed"})
        => (~playbackActive /\ ~stream.isOpen)

\* C28: an empty text produces no callbacks: the step in which playWorker takes a text
\* without sentences off textBuffer invokes no callback (no OnTextStreamStart, no
\* OnTextStreamStop).
C28_EmptyTextNoCallbacks ==
    [][(/\ textBuffer # <<>>
        /\ splitIntoSentences(Head(textBuffer)) = <<>>
        /\ textBuffer' = Tail(textBuffer))
          => lastCb' = {}]_vars

\* C29: the step that completes a synthesis unit (OnSentenceSynthesized) enqueues a
\* zero-valued silence block at the tail of ttsAudioChan.
C29_SilenceAfterUnit ==
    [][("OnSentenceSynthesized" \in lastCb')
          => /\ Len(ttsAudioChan') = Len(ttsAudioChan) + 1
             /\ ttsAudioChan'[Len(ttsAudioChan')] = 0]_vars

\* C31: no send on a closed channel: no AddToBuffer call ends in the panic of a send
\* on the audioBuffer channel that Close has closed.
C31_NoSendOnClosed == abmRet.err # "panic"

\* C32: ready timings are drained on each tick, also when no PCM chunk is available:
\* a playbackWorker that goes back to its select from GetFromBuffer while a timing is
\* queued has dequeued a timing.
C32_TimingDrainedWithoutChunk ==
    [][(/\ timings # <<>>
        /\ \E w \in Workers : pbw[w].pc = "get" /\ pbw'[w].pc = "select")
          => Len(timings') < Len(timings)]_vars

\* A step in which engine.Synthesize returned an error, so that synthesizeSentence
\* called switchToNextEngine.
SwitchCalled == env.engFails' = env.engFails + 1

\* C33: currentEngine is always a valid index of engines; a switchToNextEngine call
\* with two or more engines moves currentEngine to (currentEngine + 1) mod n, emits
\* OnEngineSwitch and lets the worker retry the sentence; with one engine it leaves
\* currentEngine alone and emits no OnEngineSwitch; nothing else moves currentEngine.
C33_SwitchToNextEngine ==
    /\ [](currentEngine \in 0..(nEngines - 1))
    /\ [][SwitchCalled =>
            IF nEngines >= 2
            THEN /\ currentEngine' = (currentEngine + 1) % nEngines
                 /\ "OnEngineSwitch" \in lastCb'
                 /\ \E i \in PlayWorkers : pw[i].pc = "synth" /\ pw'[i].pc = "synth"
            ELSE /\ currentEngine' = currentEngine
                 /\ "OnEngineSwitch" \notin lastCb']_vars
    /\ [][currentEngine' # currentEngine => SwitchCalled]_vars

\* two engines, two failures: the index has wrapped around to the first engine
C33_Witness == nEngines = 2 /\ env.engFails = 2 /\ currentEngine = 0

\* C34: every unit splitIntoSentences hands to a playWorker is non-empty, trimmed and
\* ends with the sentence terminator it was split at.
C34_UnitsKeepTerminator ==
    \A i \in PlayWorkers : \A k \in 1..Len(pw[i].sents) :
        LET u == pw[i].sents[k] IN
        /\ u # <<>>
        /\ TrimSpace(u) = u
        /\ u[Len(u)] \in {".", "!", "?", "\n"}

\* selectBestSampleRate called with any device and any desired rate
NextRate == SelectBestSampleRate

SpecRate == Init /\ [][NextRate]_vars

\* C35: the rate selectBestSampleRate returns is a member of supportedRates, and no
\* member of supportedRates is closer to the desired rate.
C35_ClosestSupportedRate ==
    sr.desired # 0 =>
        /\ \E k \in 1..Len(supportedRates) : supportedRates[k] = sr.chosen
        /\ \A k \in 1..Len(supportedRates) :
             abs(sr.chosen - sr.desired) <= abs(supportedRates[k] - sr.desired)

\* the device stream started by StreamPlayer.Start, written to and read by PortAudio
NextRing == PlayerStart \/ StreamWrite \/ audioCallback

SpecRing == Init /\ [][NextRing]_vars

RECURSIVE Flatten(_)
Flatten(q) == IF q = <<>> THEN <<>> ELSE Head(q) \o Flatten(Tail(q))

\* C36: every sample WriteAudioData accepted is copied to an output buffer, in FIFO
\* order: the samples copied so far followed by the samples still queued are the
\* accepted samples 1, 2, ... in order.
C36_AcceptedSamplesReachDevice ==
    devCopied \o Flatten(devBuffer) = [k \in 1..devAccepted |-> k]

\* one session of the close-signalled StreamPlayer with its callers and its worker
NextCp ==
    \/ CpStart \/ CpPause \/ CpResume
    \/ CpWorkerPauseEvent \/ CpWorkerResumeEvent \/ CpWorkerTick \/ CpWorkerTickDone

SpecCp == Init /\ [][NextCp]_vars

\* C37: no Pause or Resume call of a session panics by closing a pauseEvent or
\* resumeEvent channel that is closed already.
C37_PauseResumeSafe == cpRet.err # "panic"

\* Stop calls racing with a Synthesize call on one engine
NextEsp == EspStop \/ EspSynthesizeEnter \/ EspSynthesizeReturn

SpecEsp == Init /\ [][NextEsp]_vars

\* C38: stopChan is closed at most once (no Stop panics), and an engine whose stopChan
\* is closed reports the status Stopped.
C38_StopOnceAndStaysStopped ==
    /\ espRet.err # "panic"
    /\ esp.stopClosed => esp.status = "Stopped"

\* Close has not been called and every synthesis started so far is the orchestrator's.
OnlyOrchestrator == ~be.stopClosed /\ \A j \in Jobs : beWorker[j].by \in {"none", "orch"}

\* C39: at most one synthesisWorker is between its start and its deferred function,
\* and it is there exactly while isProcessing is set; a Synthesize call made while
\* isProcessing is set is rejected and starts no worker; and when the orchestrator
\* sees its channel closed, with no Close and no other successful caller, the engine
\* is Ready and not processing.
C39_HandOff ==
    /\ [](Cardinality({j \in Jobs : beWorker[j].pc \in {"run", "defer"}})
            = IF be.isProcessing THEN 1 ELSE 0)
    /\ [][(be.isProcessing /\ beRet' # beRet /\ beRet'.op = "Synthesize")
            => (beRet'.err # "nil" /\ beWorker' = beWorker)]_vars
    /\ [][(beOrch.pc = "range" /\ beOrch'.pc = "idle" /\ OnlyOrchestrator)
            => (be.status = "Ready" /\ ~be.isProcessing)]_vars

\* the orchestrator has seen the channel of its first sentence closed and its call
\* for the second sentence was accepted
C39_Witness ==
    /\ OnlyOrchestrator
    /\ beOrch = [pc |-> "range", job |-> 2]
    /\ beWorker[1].pc = "closed"
    /\ be.TotalSynthesis = 2

\* C40: when PlayAudio returns from its listening loop without a cancellation or a
\* stop, no sentence is still to be synthesized, no simulateSynthesis is still
\* running and no chunk is left in AudioQueue.
C40_PlayOutlastsAllSentences ==
    [][(/\ player.pc = "listen" /\ player'.pc = "done"
        /\ player.isPlaying /\ ~player.stopClosed
        /\ ~syncCtxDone /\ ~syncStopClosed /\ ~engineStopped)
          => /\ syn.pc \in {"loop", "done"} /\ syn.sents = <<>>
             /\ \A u \in Units : sim[u].pc \in {"none", "done"}
             /\ AudioQueue' = <<>>]_vars

====
